---- MODULE Spec2Model ----
(***************************************************************************)
(* PepperPLDiscord as state machines:                                      *)
(*   Spec         the alert sweep (utils/alerts.py check_alerts), run      *)
(*                sweep after sweep                                        *)
(*   SpecFetch    the retry loop of utils/scraper.py _fetch_and_parse      *)
(*   SpecExtract  _extract_deals_from_html on a page, and the slice        *)
(*   SpecThread   _parse_thread_data on a thread                           *)
(*   SpecPrice    the three _parse_price routines on a price text          *)
(*   SpecFilter   utils/deal_filter.py filter_deals on a batch of deals,   *)
(*                and the gates of check_alerts on the same batch          *)
(*   SpecCap      the subscriber loop of check_alerts on one deal          *)
(*   SpecDeliver  process_alerts from the batched write of check_alerts    *)
(*                on: grouping and direct messages                         *)
(*   SpecChannel  process_category_notification and process_flight_deals,  *)
(*                scheduled or triggered by hand                           *)
(*   SpecAdd      concurrent runs of _add_alert_shared for one user        *)
(*                                                                         *)
(* Text is a sequence of tokens, one character each where the characters   *)
(* are read.  The token "l/" stands for the letter l-with-stroke (U+0142)  *)
(* of the currency suffix.  A parsed number is <<n, k>>, the decimal       *)
(* n / 10^k.                                                               *)
(***************************************************************************)
EXTENDS Integers, Sequences, FiniteSets, TLC

(* ----------------------------------------------------------------------- *)
(* Program constants                                                       *)
(* ----------------------------------------------------------------------- *)
FRESHNESS_CUTOFF_HOURS == 24
MIN_TEMPERATURE == 50
MAX_REASONABLE_PRICE == 1000000
SEARCH_LIMIT == 5
RETRIES == 3
BACKOFF_BASE == 2
TRANSIENT_STATUS == {429, 500, 502, 503, 504}

(* ----------------------------------------------------------------------- *)
(* Bounds of the model                                                     *)
(* ----------------------------------------------------------------------- *)
MaxSweeps == 2
MaxDeals == 2
MaxExtract == 2
MaxLimit == 2
MaxRuns == 2
MaxPage == 3
MaxPriceLen == 2
MaxBatch == 2

(* ----------------------------------------------------------------------- *)
(* Optional values                                                         *)
(* ----------------------------------------------------------------------- *)
None == [some |-> FALSE]
Some(v) == [some |-> TRUE, v |-> v]

(* ----------------------------------------------------------------------- *)
(* Text helpers: str.lower, str.replace, the "in" substring test           *)
(* ----------------------------------------------------------------------- *)
LowerChar(c) ==
  CASE c = "Z" -> "z"
    [] c = "L/" -> "l/"
    [] c = "D" -> "d"
    [] c = "F" -> "f"
    [] OTHER -> c

Lower(s) == [i \in 1..Len(s) |-> LowerChar(s[i])]

StartsWith(s, pat) ==
  /\ Len(pat) <= Len(s)
  /\ SubSeq(s, 1, Len(pat)) = pat

RECURSIVE Replace(_, _, _)
Replace(s, old, new) ==
  IF s = <<>> THEN <<>>
  ELSE IF StartsWith(s, old)
       THEN new \o Replace(SubSeq(s, Len(old) + 1, Len(s)), old, new)
       ELSE <<Head(s)>> \o Replace(Tail(s), old, new)

Contains(s, pat) == \E i \in 1..(Len(s) - Len(pat) + 1) : SubSeq(s, i, i + Len(pat) - 1) = pat

(* ----------------------------------------------------------------------- *)
(* float(): None stands for ValueError.  Decimal literals with an optional *)
(* sign and at most one dot, and the words nan, inf, infinity.             *)
(* ----------------------------------------------------------------------- *)
Digits == {"0", "1", "2", "3", "4", "5", "6", "7", "8", "9"}

DigitVal(c) ==
  CASE c = "0" -> 0 [] c = "1" -> 1 [] c = "2" -> 2 [] c = "3" -> 3 [] c = "4" -> 4
    [] c = "5" -> 5 [] c = "6" -> 6 [] c = "7" -> 7 [] c = "8" -> 8 [] c = "9" -> 9

RECURSIVE DigitsVal(_)
DigitsVal(s) == IF s = <<>> THEN 0 ELSE DigitsVal(SubSeq(s, 1, Len(s) - 1)) * 10 + DigitVal(s[Len(s)])

NaN == "nan"
Inf == "inf"
NegInf == "-inf"

ParseFloat(s) ==
  LET neg  == s # <<>> /\ s[1] = "-"
      body == IF s # <<>> /\ s[1] \in {"+", "-"} THEN Tail(s) ELSE s
      dots == {i \in 1..Len(body) : body[i] = "."}
      nodot == SelectSeq(body, LAMBDA c : c # ".")
      frac == IF dots = {} THEN 0 ELSE Len(body) - (CHOOSE i \in dots : TRUE)
  IN  IF body = <<"n", "a", "n">> THEN Some(NaN)
      ELSE IF body \in {<<"i", "n", "f">>, <<"i", "n", "f", "i", "n", "i", "t", "y">>}
           THEN Some(IF neg THEN NegInf ELSE Inf)
      ELSE IF /\ nodot # <<>>
              /\ \A i \in 1..Len(nodot) : nodot[i] \in Digits
              /\ Cardinality(dots) <= 1
           THEN Some(<<(IF neg THEN -1 ELSE 1) * DigitsVal(nodot), frac>>)
           ELSE None

RECURSIVE Pow10(_)
Pow10(k) == IF k = 0 THEN 1 ELSE 10 * Pow10(k - 1)

(* x is not a number or infinite *)
IsSpecial(x) == x = NaN \/ x = Inf \/ x = NegInf

(* x > m for a parsed float x and an integer m; every comparison with NaN is false *)
FloatGT(x, m) ==
  IF x = NaN THEN FALSE
  ELSE IF x = Inf THEN TRUE
  ELSE IF x = NegInf THEN FALSE
  ELSE x[1] > m * Pow10(x[2])

(* ----------------------------------------------------------------------- *)
(* AlertsManager._parse_price                                              *)
(* ----------------------------------------------------------------------- *)
ZL == <<"z", "l/">>

Clean(text) == Replace(Replace(Replace(Lower(text), ZL, <<>>), <<" ">>, <<>>), <<",">>, <<".">>)

parse_price(price_str) ==
  IF ~price_str.some \/ price_str.v = <<>> THEN None
  ELSE LET clean == Clean(price_str.v)
       IN  IF \/ Contains(clean, <<"d", "a", "r", "m">>)
              \/ Contains(clean, <<"f", "r", "e", "e">>)
              \/ Contains(clean, <<"b", "e", "z", "p", "l/", "a", "t", "n">>)
           THEN Some(<<0, 0>>)
           ELSE ParseFloat(clean)

(* ----------------------------------------------------------------------- *)
(* The quality gates that check_alerts applies to one deal                 *)
(* (freshness, temperature, price validity).  A posted_timestamp is        *)
(* [aware, age]: whether the datetime carries a UTC offset, and its age in *)
(* hours at current_time.  current_time is datetime.now(), a naive value:  *)
(* comparing an aware datetime with the naive cutoff raises TypeError.     *)
(* ----------------------------------------------------------------------- *)
RAISE == "raise"
SKIP == "skip"
PASS == "pass"

FreshnessGate(deal) ==
  LET posted_time == deal.posted_timestamp
  IN  IF ~posted_time.some THEN PASS
      ELSE IF posted_time.v.aware THEN RAISE
      ELSE IF posted_time.v.age > FRESHNESS_CUTOFF_HOURS THEN SKIP
      ELSE PASS

TemperatureGate(deal) == IF deal.temperature < MIN_TEMPERATURE THEN SKIP ELSE PASS

PriceGate(deal) ==
  LET deal_price == parse_price(deal.price)
  IN  IF ~deal_price.some THEN SKIP
      ELSE IF FloatGT(deal_price.v, MAX_REASONABLE_PRICE) THEN SKIP
      ELSE PASS

GateOutcome(deal) ==
  IF FreshnessGate(deal) # PASS THEN FreshnessGate(deal)
  ELSE IF TemperatureGate(deal) # PASS THEN SKIP
  ELSE PriceGate(deal)

(* the comparison with the cap the wrong way round *)
PriceRejectsReversed(max_price, deal_price) ==
  /\ max_price.some
  /\ FloatGT(deal_price, 0)
  /\ ~FloatGT(deal_price, max_price.v)

(* an absent cap taken for a cap of 0 *)
PriceRejectsNoCapIsZero(max_price, deal_price) ==
  /\ FloatGT(deal_price, 0)
  /\ FloatGT(deal_price, IF max_price.some THEN max_price.v ELSE 0)

(* lines 96-98: the subscriber's own price cap *)
PriceRejects(max_price, deal_price) ==
  /\ max_price.some
  /\ FloatGT(deal_price, 0)
  /\ FloatGT(deal_price, max_price.v)

(* ----------------------------------------------------------------------- *)
(* Inputs: the alert rows of the store, the queries, the deals a result    *)
(* page can hold                                                           *)
(* ----------------------------------------------------------------------- *)
Users == {1, 2}
Queries == {"a", "b"}
Links == {"l1", "l2"}
AlertIds == {1, 2, 3}

AlertRow(id) ==
  CASE id = 1 -> [id |-> 1, user_id |-> 1, query |-> "a", max_price |-> None]
    [] id = 2 -> [id |-> 2, user_id |-> 1, query |-> "b", max_price |-> None]
    [] id = 3 -> [id |-> 3, user_id |-> 2, query |-> "a", max_price |-> Some(100)]

AllKeys == AlertIds \X Links

T80 == Some(<<"8", "0", " ", "z", "l/">>)
T150 == Some(<<"1", "5", "0", " ", "z", "l/">>)
TFree == Some(<<"D", "a", "r", "m", "o">>)
THuge == Some(<<"2", "0", "0", "0", "0", "0", "0", " ", "z", "l/">>)

Deal(link, price, temperature, posted) ==
  [link |-> link, price |-> price, temperature |-> temperature, posted_timestamp |-> posted]

DealPool ==
  {Deal("l1", T80, 60, None), Deal("l1", T150, 60, None),
   Deal("l2", T80, 60, Some([aware |-> FALSE, age |-> 1]))}
  \cup {Deal("l1", T80, 40, None),
        Deal("l1", T80, 60, Some([aware |-> FALSE, age |-> 30])),
        Deal("l1", None, 60, None),
        Deal("l1", THuge, 60, None),
        Deal("l1", T80, 60, Some([aware |-> TRUE, age |-> 1]))}

(* ----------------------------------------------------------------------- *)
(* State                                                                   *)
(* ----------------------------------------------------------------------- *)
VARIABLES
  alerts,          \* the store: ids of the alert rows
  ledger,          \* the store: seen-ledger keys <<alert_id, link>>
  pc,              \* where process_alerts / check_alerts stands
  sweepNo,         \* sweeps started so far
  unique_queries,  \* check_alerts local: the queries, in iteration order
  qi,              \* index of the query the for loop is at
  result,          \* the tagged result of search_deals for that query
  di,              \* deals of result["deals"] the loop has taken
  deal,            \* the deal the loop is at
  subscribers,     \* check_alerts local
  si,              \* index of the subscriber the inner loop is at
  notifications,   \* check_alerts local
  batch_seen,      \* check_alerts local
  seen_in_cycle,   \* check_alerts local
  origin,          \* history: alert id behind each element of notifications
  looked,          \* history: keys is_deal_seen_by_alert was called for, this sweep
  resolved,        \* history: keys found in the ledger or notified, this sweep
  requeried,       \* history: keys looked up again after they were resolved, this sweep
  write_log,       \* history: the batches given to mark_deals_seen_batch, this sweep
  fetched,         \* history: queries search_deals was called for, this sweep
  ledger0,         \* history: the ledger when the sweep started
  last,            \* how the last sweep ended: "none", "running", "returned", "raised"
  cause,           \* history: the statement the exception of the last sweep came from
  returned,        \* what check_alerts returned to process_alerts
  emitted,         \* history: notifications returned by all sweeps, counted
  rejected,        \* history: keys the subscriber's price cap rejected, all sweeps
  limit,           \* _fetch_and_parse argument
  extracted,       \* what _extract_deals_from_html makes of the page, document order
  f_pc,            \* where _fetch_and_parse stands
  attempt,         \* _fetch_and_parse loop variable
  f_result,        \* the tagged result _fetch_and_parse returned
  f_raised,        \* an exception left _fetch_and_parse
  sleeps,          \* history: the asyncio.sleep durations, in order
  requests,        \* history: session.get calls
  f_log,           \* history: what each request and each body read ended in
  html,            \* the page: its data-vue3 and article.thread elements, document order
  x_pc,            \* where _extract_deals_from_html stands
  x_i,             \* index of the element the for loop is at
  x_deals,         \* _extract_deals_from_html local: deals
  x_src,           \* history: the page position behind each element of deals
  x_ran,           \* history: the strategies that ran, in order
  thread,          \* _parse_thread_data argument
  t_out,           \* history: what each run of _parse_thread_data returned
  p_text,          \* _parse_price argument
  p_out,           \* history: what each _parse_price routine returned for it
  filter_in,       \* filter_deals argument: deals
  filter_opts,     \* filter_deals keyword arguments
  filter_out,      \* history: what each run of filter_deals ended in
  matcher_out,     \* history: what the gates of check_alerts made of the same deals
  d_pc,            \* process_alerts: where the delivery of the returned list is
  d_ui,            \* process_alerts: index of the user in grouped
  d_qi,            \* process_alerts: index of the query of that user
  outbox,          \* history: the delivery attempts of this run, in order
  c_pc,            \* the channel job: where it is
  c_job,           \* the channel job: its arguments and what it fetched
  c_i,             \* the channel job: index of the deal in deals
  new_deals,       \* the channel job: local of the same name
  batch_to_mark,   \* process_category_notification: local of the same name
  sent,            \* the stores category_sent_deals and sent_deals: (ledger, link)
  category_status, \* the status column of the category
  shown,           \* history: the links of the message the job sent, if it sent one
  owned,           \* the alert rows of one user: their queries
  handlers         \* the add-alert handlers under way for that user

vars == <<alerts, ledger, pc, sweepNo, unique_queries, qi, result, di, deal, subscribers,
          si, notifications, batch_seen, seen_in_cycle, origin, looked, resolved, requeried,
          write_log, fetched, ledger0, last, cause, returned, emitted, rejected,
          limit, extracted, f_pc, attempt, f_result, f_raised, sleeps, requests, f_log,
          html, x_pc, x_i, x_deals, x_src, x_ran, thread, t_out, p_text, p_out,
          filter_in, filter_opts, filter_out, matcher_out,
          d_pc, d_ui, d_qi, outbox, c_pc, c_job, c_i, new_deals, batch_to_mark, sent,
          category_status, shown, owned, handlers>>

sweep_vars == <<alerts, ledger, pc, sweepNo, unique_queries, qi, result, di, deal, subscribers,
                si, notifications, batch_seen, seen_in_cycle, origin, looked, resolved,
                requeried, write_log, fetched, ledger0, last, cause, returned, emitted,
                rejected>>

fetch_vars == <<limit, extracted, f_pc, attempt, f_result, f_raised, sleeps, requests, f_log>>

(* the variables of the retry loop: extraction and slice leave them alone *)
fetch_loop == <<f_pc, attempt, f_raised, sleeps, requests, f_log>>

extract_vars == <<html, x_pc, x_i, x_deals, x_src, x_ran>>

thread_vars == <<thread, t_out>>

price_vars == <<p_text, p_out>>

filter_vars == <<filter_in, filter_opts, filter_out, matcher_out>>

deliver_vars == <<d_pc, d_ui, d_qi, outbox>>

channel_vars == <<c_pc, c_job, c_i, new_deals, batch_to_mark, sent, category_status, shown>>

add_vars == <<owned, handlers>>

cog_vars == <<deliver_vars, channel_vars, add_vars>>

pure_vars == <<extract_vars, thread_vars, price_vars, filter_vars, cog_vars>>

history == <<looked, resolved, requeried>>

locals == <<unique_queries, qi, result, di, deal, subscribers, si, notifications,
            batch_seen, seen_in_cycle, origin>>

EmitKeys == Users \X AlertIds \X Links

NoDeal == Deal("", None, 0, None)
FAILURE == "failure"
SUCCESS == "success"

Range(s) == {s[i] : i \in 1..Len(s)}

(* ----------------------------------------------------------------------- *)
(* The persistence collaborator (utils/db.py), from its interface          *)
(* ----------------------------------------------------------------------- *)
RECURSIVE SetToSeqs(_)
SetToSeqs(S) ==
  IF S = {} THEN {<<>>}
  ELSE UNION {{<<e>> \o t : t \in SetToSeqs(S \ {e})} : e \in S}

get_all_unique_queries == SetToSeqs({AlertRow(a).query : a \in alerts})

RECURSIVE SortedRows(_)
SortedRows(S) ==
  IF S = {} THEN <<>>
  ELSE LET m == CHOOSE a \in S : \A b \in S : a <= b
       IN  <<AlertRow(m)>> \o SortedRows(S \ {m})

(* the rows watching a query; the interface does not promise distinct rows *)
get_alerts_by_query(query) ==
  LET rows == SortedRows({a \in alerts : AlertRow(a).query = query})
  IN  {rows} \cup (IF rows = <<>> THEN {} ELSE {rows \o <<rows[Len(rows)]>>})

is_deal_seen_by_alert(alert_id, link) == <<alert_id, link>> \in ledger

mark_deals_seen_batch(batch) == ledger \cup Range(batch)

(* ----------------------------------------------------------------------- *)
(* check_alerts, statement by statement                                    *)
(* ----------------------------------------------------------------------- *)
(* line 89 without the test *)
InCycleNever(cache_key) == FALSE

(* line 89 *)
InCycle(cache_key) == cache_key \in seen_in_cycle

(* line 93 left out *)
CycleAfterLedgerHitForgets(cache_key) == seen_in_cycle

(* line 93 *)
CycleAfterLedgerHit(cache_key) == seen_in_cycle \cup {cache_key}

(* line 106 left out *)
CycleAfterEmitForgets(cache_key) == seen_in_cycle

(* line 106 *)
CycleAfterEmit(cache_key) == seen_in_cycle \cup {cache_key}

(* line 111 without the test *)
ShouldWriteAlways(batch) == TRUE

(* line 111 *)
ShouldWrite(batch) == batch # <<>>

(* the record names the first subscriber of the query, whoever matched *)
NotificationToFirstSubscriber(sub, d, query) ==
  [user_id |-> subscribers[1].user_id, deal |-> d, query |-> query]

(* lines 100-104 *)
Notification(sub, d, query) == [user_id |-> sub.user_id, deal |-> d, query |-> query]

(* the cache outlives the call, as an attribute of the manager would *)
FrameGoneKeepsCache ==
  /\ qi' = 1
  /\ result' = FAILURE
  /\ di' = 0
  /\ deal' = NoDeal
  /\ subscribers' = <<>>
  /\ si' = 1
  /\ notifications' = <<>>
  /\ batch_seen' = <<>>
  /\ seen_in_cycle' = seen_in_cycle
  /\ origin' = <<>>

(* the frame of check_alerts is gone: its locals hold nothing *)
FrameGone ==
  /\ qi' = 1
  /\ result' = FAILURE
  /\ di' = 0
  /\ deal' = NoDeal
  /\ subscribers' = <<>>
  /\ si' = 1
  /\ notifications' = <<>>
  /\ batch_seen' = <<>>
  /\ seen_in_cycle' = {}
  /\ origin' = <<>>

(* the exception is swallowed inside check_alerts, which returns its list *)
RaisedButReturns(where) ==
  /\ pc' = "idle"
  /\ last' = "returned"
  /\ cause' = where
  /\ returned' = notifications
  /\ FrameGone

(* an exception leaves check_alerts; process_alerts (lines 830-831) logs it *)
Raised(where) ==
  /\ pc' = "idle"
  /\ last' = "raised"
  /\ cause' = where
  /\ returned' = <<>>
  /\ FrameGone

(* the for loop takes the same query once more *)
NextQuerySameAgain ==
  /\ pc' = "query"
  /\ qi' = qi
  /\ di' = 0
  /\ deal' = NoDeal
  /\ subscribers' = <<>>
  /\ si' = 1

(* the for loop goes on to the next query: the locals of this one are dead *)
NextQuery ==
  /\ pc' = "query"
  /\ qi' = qi + 1
  /\ di' = 0
  /\ deal' = NoDeal
  /\ subscribers' = <<>>
  /\ si' = 1

InitSweep ==
  /\ alerts = AlertIds
  /\ ledger = {}
  /\ pc = "idle"
  /\ sweepNo = 0
  /\ unique_queries = <<>>
  /\ qi = 1
  /\ result = FAILURE
  /\ di = 0
  /\ deal = NoDeal
  /\ subscribers = <<>>
  /\ si = 1
  /\ notifications = <<>>
  /\ batch_seen = <<>>
  /\ seen_in_cycle = {}
  /\ origin = <<>>
  /\ looked = {}
  /\ resolved = {}
  /\ requeried = {}
  /\ write_log = <<>>
  /\ fetched = {}
  /\ ledger0 = {}
  /\ last = "none"
  /\ cause = "none"
  /\ returned = <<>>
  /\ emitted = [k \in EmitKeys |-> 0]
  /\ rejected = {}

NoResult == [success |-> FALSE, error |-> "", deals |-> <<>>, pending |-> TRUE]

InitFetch ==
  /\ f_pc = "idle"
  /\ attempt = 0
  /\ f_result = NoResult
  /\ f_raised = FALSE
  /\ sleeps = <<>>
  /\ requests = 0
  /\ f_log = <<>>

(* no extraction is running *)
InitExtract ==
  /\ html = <<>>
  /\ x_pc = "idle"
  /\ x_i = 1
  /\ x_deals = <<>>
  /\ x_src = <<>>
  /\ x_ran = <<>>

InitThread ==
  /\ thread = [t |-> "none"]
  /\ t_out = <<>>

InitPrice ==
  /\ p_text = None
  /\ p_out = <<>>

(* filter_deals is not running *)
(* no channel job *)
NoJob == [kind |-> "none", manual_trigger |-> FALSE, channel |-> FALSE, deals |-> <<>>,
          min_temperature |-> 0, max_price |-> None, sent_before |-> {},
          status_before |-> "active"]

(* the cog at rest: nothing to deliver, no channel job, no add-alert handler *)
InitCog ==
  /\ d_pc = "idle"
  /\ d_ui = 1
  /\ d_qi = 1
  /\ outbox = <<>>
  /\ c_pc = "idle"
  /\ c_job = NoJob
  /\ c_i = 1
  /\ new_deals = <<>>
  /\ batch_to_mark = <<>>
  /\ sent = {}
  /\ category_status = "active"
  /\ shown = None
  /\ owned = {}
  /\ handlers = <<>>

InitFilter ==
  /\ filter_in = <<>>
  /\ filter_opts = [check_freshness |-> TRUE, check_temperature |-> TRUE, check_price |-> TRUE,
                    min_temperature |-> None, max_price |-> None]
  /\ filter_out = <<>>
  /\ matcher_out = <<>>

(* break in the place of continue *)
SkipQueryBreaks ==
  /\ pc' = "query"
  /\ qi' = Len(unique_queries) + 1
  /\ di' = 0
  /\ deal' = NoDeal
  /\ subscribers' = <<>>
  /\ si' = 1

(* lines 45-46 and 50-51: continue *)
SkipQuery == NextQuery

Init ==
  /\ InitSweep
  /\ InitCog
  /\ InitFetch
  /\ InitExtract
  /\ InitThread
  /\ InitPrice
  /\ InitFilter
  /\ limit = SEARCH_LIMIT
  /\ extracted = <<>>

(* A user removes an alert (external).  It can happen at any moment; the   *)
(* sweep reads the alert rows only in get_all_unique_queries and in        *)
(* get_alerts_by_query(query), so a removal is taken right before the read *)
(* that sees it.                                                           *)
RemoveAlert ==
  /\ \E a \in alerts :
       /\ \/ pc = "idle" /\ sweepNo < MaxSweeps
          \/ pc = "subs" /\ AlertRow(a).query = unique_queries[qi]
       /\ alerts' = alerts \ {a}
  /\ UNCHANGED <<ledger, pc, sweepNo, locals, history, write_log, fetched, ledger0, last,
                 cause, returned, emitted, rejected>>

(* alerts_task -> process_alerts -> check_alerts, lines 31-40 *)
StartSweep ==
  /\ pc = "idle"
  /\ sweepNo < MaxSweeps
  /\ sweepNo' = sweepNo + 1
  /\ looked' = {}
  /\ resolved' = {}
  /\ requeried' = {}
  /\ write_log' = <<>>
  /\ fetched' = {}
  /\ ledger0' = ledger
  /\ \E ok \in BOOLEAN :
       IF ok
       THEN /\ unique_queries' \in get_all_unique_queries
            /\ pc' = "query"
            /\ last' = "running"
            /\ cause' = "none"
            /\ returned' = <<>>
            /\ UNCHANGED <<qi, result, di, deal, subscribers, si, notifications, batch_seen,
                           seen_in_cycle, origin>>
       ELSE /\ unique_queries' = <<>>
            /\ Raised("get_all_unique_queries")
  /\ UNCHANGED <<alerts, ledger, emitted, rejected>>

(* lines 42-46: the fetch of the next query *)
FetchQuery ==
  /\ pc = "query"
  /\ qi <= Len(unique_queries)
  /\ fetched' = fetched \cup {unique_queries[qi]}
  /\ \E r \in {FAILURE, SUCCESS} :
       /\ result' = r
       /\ IF r = FAILURE
          THEN SkipQuery
          ELSE /\ pc' = "subs"
               /\ UNCHANGED <<qi, di, deal, subscribers, si>>
  /\ UNCHANGED <<alerts, ledger, sweepNo, unique_queries, notifications, batch_seen,
                 seen_in_cycle, origin, history, write_log, ledger0, last, cause,
                 returned, emitted, rejected>>

(* lines 48-51 *)
GetSubscribers ==
  /\ pc = "subs"
  /\ \E ok \in BOOLEAN :
       IF ok
       THEN /\ \E subs \in get_alerts_by_query(unique_queries[qi]) :
                 IF subs = <<>>
                 THEN SkipQuery
                 ELSE /\ subscribers' = subs
                      /\ pc' = "deal"
                      /\ UNCHANGED <<qi, di, deal, si>>
            /\ UNCHANGED <<result, notifications, batch_seen, seen_in_cycle, origin, last,
                           cause, returned>>
       ELSE Raised("get_alerts_by_query")
  /\ UNCHANGED <<alerts, ledger, sweepNo, unique_queries, history, write_log, fetched,
                 ledger0, emitted, rejected>>

(* lines 53-81: the loop takes the next deal of the page and gates it.     *)
(* The page is read one deal at a time, so the model draws each deal when  *)
(* the loop reaches it; the page ends after at most limit=5 deals.  A deal *)
(* the gates skip is not read again.                                       *)
NextDeal ==
  /\ pc = "deal"
  /\ di < MaxDeals
  /\ di < SEARCH_LIMIT
  /\ \E d \in DealPool :
       CASE GateOutcome(d) = RAISE -> Raised("gates")
         [] GateOutcome(d) = SKIP ->
              /\ di' = di + 1
              /\ UNCHANGED <<pc, deal>>
              /\ UNCHANGED <<qi, result, subscribers, si, notifications, batch_seen,
                             seen_in_cycle, origin, last, cause, returned>>
         [] OTHER ->
              /\ di' = di + 1
              /\ deal' = d
              /\ pc' = "pair"
              /\ UNCHANGED <<qi, result, subscribers, si, notifications, batch_seen,
                             seen_in_cycle, origin, last, cause, returned>>
  /\ UNCHANGED <<alerts, ledger, sweepNo, unique_queries, history, write_log, fetched,
                 ledger0, emitted, rejected>>

(* line 53 exhausted; lines 108-109 (no delay: at most 5 queries here) *)
EndOfPage ==
  /\ pc = "deal"
  /\ NextQuery
  /\ UNCHANGED <<alerts, ledger, sweepNo, unique_queries, result, notifications, batch_seen,
                 seen_in_cycle, origin, history, write_log, fetched, ledger0, last, cause,
                 returned, emitted, rejected>>

(* line 92 without the lookup's answer *)
LedgerHitNever(alert_id, deal_id) == FALSE

(* line 92 *)
LedgerHit(alert_id, deal_id) == is_deal_seen_by_alert(alert_id, deal_id)

(* line 83: on to the next subscriber, or back to line 53 *)
Advance ==
  IF si = Len(subscribers)
  THEN pc' = "deal" /\ si' = 1 /\ deal' = NoDeal
  ELSE pc' = "pair" /\ si' = si + 1 /\ deal' = deal

(* lines 83-106: one subscriber of the deal that passed the gates *)
ProcessPair ==
  /\ pc = "pair"
  /\ LET sub == subscribers[si]
         cache_key == <<sub.id, deal.link>>
         deal_price == parse_price(deal.price).v
     IN  IF InCycle(cache_key)
         THEN /\ Advance
              /\ UNCHANGED <<notifications, batch_seen, seen_in_cycle, origin, history,
                             last, cause, returned, rejected>>
              /\ UNCHANGED <<qi, result, di, subscribers>>
         ELSE /\ looked' = looked \cup {cache_key}
              /\ requeried' = IF cache_key \in resolved
                               THEN requeried \cup {cache_key} ELSE requeried
              /\ \E ok \in BOOLEAN :
                   IF ~ok
                   THEN /\ Raised("is_deal_seen_by_alert")
                        /\ UNCHANGED <<rejected, resolved>>
                   ELSE /\ UNCHANGED <<qi, result, di, subscribers, last, cause, returned>>
                        /\ Advance
                        /\ IF LedgerHit(sub.id, deal.link)
                           THEN /\ seen_in_cycle' = CycleAfterLedgerHit(cache_key)
                                /\ resolved' = resolved \cup {cache_key}
                                /\ UNCHANGED <<notifications, batch_seen, origin, rejected>>
                           ELSE IF PriceRejects(sub.max_price, deal_price)
                           THEN /\ rejected' = rejected \cup {cache_key}
                                /\ UNCHANGED <<notifications, batch_seen, seen_in_cycle,
                                               origin, resolved>>
                           ELSE /\ notifications' =
                                     Append(notifications,
                                            Notification(sub, deal, unique_queries[qi]))
                                /\ origin' = Append(origin, sub.id)
                                /\ batch_seen' = Append(batch_seen, cache_key)
                                /\ seen_in_cycle' = CycleAfterEmit(cache_key)
                                /\ resolved' = resolved \cup {cache_key}
                                /\ UNCHANGED rejected
  /\ UNCHANGED <<alerts, ledger, sweepNo, unique_queries, write_log, fetched, ledger0,
                 emitted>>

CountEmitted(k) ==
  Cardinality({i \in 1..Len(notifications) :
                 /\ notifications[i].user_id = k[1]
                 /\ origin[i] = k[2]
                 /\ notifications[i].deal.link = k[3]})

(* lines 111-116, and the return into process_alerts (line 778) *)
FinishSweep ==
  /\ pc = "query"
  /\ qi > Len(unique_queries)
  /\ \E ok \in BOOLEAN :
       IF ShouldWrite(batch_seen) /\ ~ok
       THEN /\ write_log' = Append(write_log, batch_seen)
            /\ Raised("mark_deals_seen_batch")
            /\ UNCHANGED <<ledger, emitted>>
       ELSE /\ IF ShouldWrite(batch_seen)
               THEN /\ ledger' = mark_deals_seen_batch(batch_seen)
                    /\ write_log' = Append(write_log, batch_seen)
               ELSE UNCHANGED <<ledger, write_log>>
            /\ pc' = "idle"
            /\ last' = "returned"
            /\ cause' = "none"
            /\ returned' = notifications
            /\ emitted' = [k \in EmitKeys |-> emitted[k] + CountEmitted(k)]
            /\ FrameGone
  /\ UNCHANGED <<alerts, sweepNo, unique_queries, history, fetched, ledger0, rejected>>

Next ==
  \/ RemoveAlert /\ UNCHANGED <<fetch_vars, pure_vars>>
  \/ StartSweep /\ UNCHANGED <<fetch_vars, pure_vars>>
  \/ FetchQuery /\ UNCHANGED <<fetch_vars, pure_vars>>
  \/ GetSubscribers /\ UNCHANGED <<fetch_vars, pure_vars>>
  \/ NextDeal /\ UNCHANGED <<fetch_vars, pure_vars>>
  \/ EndOfPage /\ UNCHANGED <<fetch_vars, pure_vars>>
  \/ ProcessPair /\ UNCHANGED <<fetch_vars, pure_vars>>
  \/ FinishSweep /\ UNCHANGED <<fetch_vars, pure_vars>>

Spec == Init /\ [][Next]_vars

(* ----------------------------------------------------------------------- *)
(* PepperScraper._fetch_and_parse (utils/scraper.py lines 55-87)           *)
(* ----------------------------------------------------------------------- *)
Statuses == {200, 403, 404} \cup TRANSIENT_STATUS

(* str(e) of an exception; str(asyncio.TimeoutError()) is the empty text *)
NetworkErrors == {[kind |-> "ClientError", text |-> "Connection reset"],
                  [kind |-> "TimeoutError", text |-> ""]}
OtherErrors == {[kind |-> "Exception", text |-> "boom"]}

StatusText(status) ==
  CASE status = 403 -> "HTTP 403" [] status = 404 -> "HTTP 404" [] status = 429 -> "HTTP 429"
    [] status = 500 -> "HTTP 500" [] status = 502 -> "HTTP 502" [] status = 503 -> "HTTP 503"
    [] status = 504 -> "HTTP 504" [] OTHER -> "HTTP"

Min(a, b) == IF a < b THEN a ELSE b

(* deals[:limit] *)
Take(s, n) == SubSeq(s, 1, Min(n, Len(s)))

(* line 75 with the total taken after the slice *)
SuccessResultTotalOfSlice(deals, n) ==
  [success |-> TRUE, deals |-> Take(deals, n), total |-> Len(Take(deals, n)), pending |-> FALSE]

SuccessResult(deals, n) ==
  [success |-> TRUE, deals |-> Take(deals, n), total |-> Len(deals), pending |-> FALSE]

FailureResult(error) == [success |-> FALSE, error |-> error, deals |-> <<>>, pending |-> FALSE]

Return(r) ==
  /\ f_result' = r
  /\ f_pc' = "done"
  /\ UNCHANGED <<f_raised, attempt, sleeps>>

(* the exception leaves _fetch_and_parse *)
Escapes ==
  /\ f_raised' = TRUE
  /\ f_pc' = "done"
  /\ UNCHANGED <<f_result, attempt, sleeps>>

(* lines 67 and 82: await asyncio.sleep(2 * (attempt + 1)) *)
StartSleep ==
  /\ f_pc' = "sleep"
  /\ UNCHANGED <<f_result, f_raised, attempt, sleeps>>

(* lines 66-68 taken for every non-200 status: a permanent status is retried too *)
OnStatusAlwaysRetries(status) == StartSleep

(* lines 64-69 *)
OnStatus(status) ==
  IF status \in TRANSIENT_STATUS
  THEN StartSleep
  ELSE Return(FailureResult(StatusText(status)))

(* lines 77-82 *)
OnNetworkError(e) ==
  IF attempt = RETRIES - 1
  THEN Return(FailureResult(e.text))
  ELSE StartSleep

(* lines 83-85 left out: only the network errors are caught *)
OnOtherErrorEscapes(e) == Escapes

(* lines 83-85 *)
OnOtherError(e) == Return(FailureResult(e.text))

(* a caller awaits _fetch_and_parse(url, limit, context) *)
FetchCall ==
  /\ f_pc = "idle"
  /\ f_pc' = "attempt"
  /\ attempt' = 0
  /\ UNCHANGED <<limit, extracted, f_result, f_raised, sleeps, requests, f_log>>

(* lines 58-69: session.get answers with a status, or raises *)
Request ==
  /\ f_pc = "attempt"
  /\ requests' = requests + 1
  /\ \/ \E status \in Statuses :
          /\ f_log' = Append(f_log, StatusText(status))
          /\ IF status # 200
             THEN OnStatus(status)
             ELSE /\ f_pc' = "body"
                  /\ UNCHANGED <<f_result, f_raised, attempt, sleeps>>
     \/ \E e \in NetworkErrors :
          /\ f_log' = Append(f_log, e.kind)
          /\ OnNetworkError(e)
     \/ \E e \in OtherErrors :
          /\ f_log' = Append(f_log, e.kind)
          /\ OnOtherError(e)
  /\ UNCHANGED <<limit, extracted>>

(* lines 71-75: response.text(), extraction, the slice *)
ReadBody ==
  /\ f_pc = "body"
  /\ \/ /\ f_log' = Append(f_log, "read")
        /\ Return(SuccessResult(extracted, limit))
     \/ \E e \in NetworkErrors :
          /\ f_log' = Append(f_log, e.kind)
          /\ OnNetworkError(e)
     \/ \E e \in OtherErrors :
          /\ f_log' = Append(f_log, e.kind)
          /\ OnOtherError(e)
  /\ UNCHANGED <<limit, extracted, requests>>

(* the sleep ends: line 58 takes the next attempt, or the loop is over (line 87) *)
Backoff ==
  /\ f_pc = "sleep"
  /\ sleeps' = Append(sleeps, BACKOFF_BASE * (attempt + 1))
  /\ attempt' = attempt + 1
  /\ IF attempt + 1 < RETRIES
     THEN f_pc' = "attempt" /\ UNCHANGED f_result
     ELSE f_pc' = "done" /\ f_result' = FailureResult("Max retries exceeded")
  /\ UNCHANGED <<limit, extracted, f_raised, requests, f_log>>

RECURSIVE Iota(_)
Iota(n) == IF n = 0 THEN <<>> ELSE Append(Iota(n - 1), n)

InitFetcher ==
  /\ InitSweep
  /\ InitCog
  /\ InitFetch
  /\ InitExtract
  /\ InitThread
  /\ InitPrice
  /\ InitFilter
  /\ limit \in 0..MaxLimit
  /\ extracted \in {Iota(n) : n \in 0..MaxExtract}

NextFetch ==
  \/ FetchCall /\ UNCHANGED <<sweep_vars, pure_vars>>
  \/ Request /\ UNCHANGED <<sweep_vars, pure_vars>>
  \/ ReadBody /\ UNCHANGED <<sweep_vars, pure_vars>>
  \/ Backoff /\ UNCHANGED <<sweep_vars, pure_vars>>

SpecFetch == InitFetcher /\ [][NextFetch]_vars

(* ----------------------------------------------------------------------- *)
(* Python values of the decoded JSON: a record of the type and the value.  *)
(* A str is a sequence of tokens, a dict a function on its keys, a float a *)
(* parsed number (<<n, k>>, NaN, Inf or NegInf).                           *)
(* ----------------------------------------------------------------------- *)
PyNone == [t |-> "none"]
PyBool(b) == [t |-> "bool", b |-> b]
PyInt(n) == [t |-> "int", i |-> n]
PyFloat(x) == [t |-> "float", f |-> x]
PyStr(s) == [t |-> "str", s |-> s]
PyList(s) == [t |-> "list", l |-> s]
PyDict(f) == [t |-> "dict", d |-> f]

(* bool(x) *)
Truthy(x) ==
  CASE x.t = "none" -> FALSE
    [] x.t = "bool" -> x.b
    [] x.t = "int" -> x.i # 0
    [] x.t = "float" -> IsSpecial(x.f) \/ x.f[1] # 0
    [] x.t = "str" -> x.s # <<>>
    [] x.t = "list" -> x.l # <<>>
    [] x.t = "dict" -> DOMAIN x.d # {}

(* d.get(key, default) of a dict *)
Get(d, key, default) == IF key \in DOMAIN d THEN d[key] ELSE default

DigitChar(d) ==
  CASE d = 0 -> "0" [] d = 1 -> "1" [] d = 2 -> "2" [] d = 3 -> "3" [] d = 4 -> "4"
    [] d = 5 -> "5" [] d = 6 -> "6" [] d = 7 -> "7" [] d = 8 -> "8" [] d = 9 -> "9"

RECURSIVE NatText(_)
NatText(n) == IF n < 10 THEN <<DigitChar(n)>> ELSE NatText(n \div 10) \o <<DigitChar(n % 10)>>

(* str(n) of an int *)
IntText(n) == IF n < 0 THEN <<"-">> \o NatText(0 - n) ELSE NatText(n)

(* the k decimal places of a fraction f / 10^k *)
RECURSIVE FracText(_, _)
FracText(f, k) == IF k = 0 THEN <<>> ELSE FracText(f \div 10, k - 1) \o <<DigitChar(f % 10)>>

(* a float without trailing zero decimals: 1250 / 10^2 is 125 / 10^1 *)
RECURSIVE Shortest(_)
Shortest(x) == IF x[2] > 0 /\ x[1] % 10 = 0 THEN Shortest(<<x[1] \div 10, x[2] - 1>>) ELSE x

Abs(n) == IF n < 0 THEN 0 - n ELSE n

(* str(x) of a float below 10^16: 80.0, 12.5, nan, inf *)
FloatText(x) ==
  IF IsSpecial(x) THEN <<x>>
  ELSE LET s == Shortest(x)
           whole == Abs(s[1]) \div Pow10(s[2])
           frac == Abs(s[1]) % Pow10(s[2])
       IN  (IF s[1] < 0 THEN <<"-">> ELSE <<>>) \o NatText(whole) \o <<".">>
           \o (IF s[2] = 0 THEN <<"0">> ELSE FracText(frac, s[2]))

(* what an f-string makes of a value *)
Text(x) ==
  CASE x.t = "str" -> x.s
    [] x.t = "int" -> IntText(x.i)
    [] x.t = "float" -> FloatText(x.f)
    [] x.t = "bool" -> IF x.b THEN <<"True">> ELSE <<"False">>
    [] x.t = "none" -> <<"None">>

(* ----------------------------------------------------------------------- *)
(* datetime.fromisoformat.  The text of an instant is <<stamp>> or         *)
(* <<stamp, zone>>: the stamp names a date and time by its distance from   *)
(* the current time, the zone is "Z" or a UTC offset.  None stands for     *)
(* ValueError.                                                             *)
(* ----------------------------------------------------------------------- *)
Stamps == {"1 hour ago", "30 hours ago"}

StampAge(stamp) == IF stamp = "1 hour ago" THEN 1 ELSE 30

Offsets == {"+00:00"}

fromisoformat(s) ==
  IF /\ Len(s) \in {1, 2}
     /\ s[1] \in Stamps
     /\ Len(s) = 2 => s[2] \in Offsets
  THEN Some([aware |-> Len(s) = 2, age |-> StampAge(s[1])])
  ELSE None

(* ----------------------------------------------------------------------- *)
(* PepperScraper._parse_thread_data (utils/scraper.py lines 169-240).      *)
(* The title, the merchant and the image URL are left out: their           *)
(* statements (lines 179, 200-216) cannot raise and nothing reads them.    *)
(* ----------------------------------------------------------------------- *)
BASE_URL == <<"https://www.pepper.pl">>

UNAVAILABLE_STATUS == {<<"expired">>, <<"archived">>, <<"deleted">>}

(* line 175 with the flags ignored: only the status is looked at *)
IsUnavailableStatusOnly(status, is_expired, is_archived) ==
  status.t = "str" /\ status.s \in UNAVAILABLE_STATUS

(* line 175 *)
IsUnavailable(status, is_expired, is_archived) ==
  \/ Truthy(is_expired)
  \/ Truthy(is_archived)
  \/ status.t = "str" /\ status.s \in UNAVAILABLE_STATUS

(* lines 183-186 with the share link always taken *)
ThreadLinkShareOnly(d) == Get(d, "shareableLink", PyStr(<<>>))

(* lines 180-186 *)
ThreadLink(d) ==
  LET thread_id == Get(d, "threadId", PyStr(<<>>))
      title_slug == Get(d, "titleSlug", PyStr(<<>>))
  IN  IF Truthy(title_slug) /\ Truthy(thread_id)
      THEN PyStr(BASE_URL \o <<"/promocje/">> \o Text(title_slug) \o <<"-">> \o Text(thread_id))
      ELSE Get(d, "shareableLink", PyStr(<<>>))

(* lines 188-192: f"{price} zl/" if price else None *)
PriceText(price) == IF Truthy(price) THEN Some(Text(price) \o <<" ">> \o ZL) ELSE None

(* lines 194-198: the number temp is bound to; ValueError gives 0 *)
TempNumber(temp) ==
  CASE temp.t = "int" -> <<temp.i, 0>>
    [] temp.t = "bool" -> <<IF temp.b THEN 1 ELSE 0, 0>>
    [] temp.t = "float" -> temp.f
    [] temp.t = "str" -> LET f == ParseFloat(temp.s) IN IF f.some THEN f.v ELSE <<0, 0>>
    [] OTHER -> <<0, 0>>

(* int(temp), line 231: truncation toward zero; None stands for the        *)
(* ValueError of int(nan) and the OverflowError of int(inf)                *)
IntOf(x) ==
  IF IsSpecial(x) THEN None
  ELSE Some(IF x[1] < 0 THEN 0 - ((0 - x[1]) \div Pow10(x[2])) ELSE x[1] \div Pow10(x[2]))

(* lines 218-224 *)
PostedTimestamp(published_at) ==
  IF ~Truthy(published_at) THEN None
  ELSE IF published_at.t # "str" THEN None
  ELSE fromisoformat(Replace(published_at.s, <<"Z">>, <<"+00:00">>))

parse_thread_data(thread_arg) ==
  IF thread_arg.t # "dict" THEN None
  ELSE LET d == thread_arg.d
           status == Get(d, "status", PyStr(<<"unknown">>))
           is_expired == Get(d, "isExpired", PyBool(FALSE))
           is_archived == Get(d, "isArchived", PyBool(FALSE))
           temperature == IntOf(TempNumber(Get(d, "temperature", PyInt(0))))
       IN  IF IsUnavailable(status, is_expired, is_archived) THEN None
           ELSE IF ~temperature.some THEN None
           ELSE Some([link |-> ThreadLink(d),
                      price |-> PriceText(Get(d, "price", PyNone)),
                      next_best_price |-> PriceText(Get(d, "nextBestPrice", PyNone)),
                      temperature |-> temperature.v,
                      voucher_code |-> Get(d, "voucherCode", PyStr(<<>>)),
                      posted_timestamp |-> PostedTimestamp(Get(d, "publishedAt", PyNone)),
                      status |-> status])

(* ----------------------------------------------------------------------- *)
(* _parse_thread_data applied to one thread, several times                 *)
(* ----------------------------------------------------------------------- *)
Absent == [t |-> "absent"]

(* the entry of a key in a dict, none when the key is absent *)
Entry(key, value) == IF value.t = "absent" THEN <<>> ELSE key :> value

ThreadOf(status, is_expired, is_archived, title_slug, thread_id, share) ==
  PyDict(Entry("status", status) @@ Entry("isExpired", is_expired)
         @@ Entry("isArchived", is_archived) @@ Entry("titleSlug", title_slug)
         @@ Entry("threadId", thread_id) @@ Entry("shareableLink", share)
         @@ ("price" :> PyInt(80)) @@ ("temperature" :> PyInt(60))
         @@ ("publishedAt" :> PyStr(<<"1 hour ago", "Z">>)))

StatusValues == {Absent} \cup {PyStr(<<s>>) : s \in {"active", "expired", "archived", "deleted"}}

FlagValues == {Absent, PyBool(FALSE), PyBool(TRUE)}

SlugValues == {Absent, PyStr(<<>>), PyStr(<<"tv">>)}

IdValues == {Absent, PyInt(0), PyInt(17)}

ShareValues == {Absent, PyStr(BASE_URL \o <<"/share/17">>)}

(* the amounts of a listing: none, null, zero, whole and decimal *)
AmountValues ==
  {Absent, PyNone, PyInt(0), PyInt(80), PyFloat(<<0, 0>>), PyFloat(<<80, 0>>),
   PyFloat(<<125, 1>>), PyFloat(<<1999, 2>>)}

(* an available listing with the given price and next-best price *)
PricedThread(price, next_best) ==
  PyDict(Entry("price", price) @@ Entry("nextBestPrice", next_best)
         @@ ("status" :> PyStr(<<"active">>)) @@ ("titleSlug" :> PyStr(<<"tv">>))
         @@ ("threadId" :> PyInt(17)) @@ ("temperature" :> PyInt(60))
         @@ ("publishedAt" :> PyStr(<<"1 hour ago", "Z">>)))

ThreadSpace ==
  {ThreadOf(s, e, a, g, i, l) : s \in StatusValues, e \in FlagValues, a \in FlagValues,
                                g \in SlugValues, i \in IdValues, l \in ShareValues}
  \cup {PricedThread(p, n) : p \in AmountValues, n \in AmountValues}
  \cup {PyNone, PyStr(<<"thread">>)}

InitThreads ==
  /\ InitSweep
  /\ InitCog
  /\ InitFetch
  /\ InitExtract
  /\ InitPrice
  /\ InitFilter
  /\ limit = SEARCH_LIMIT
  /\ extracted = <<>>
  /\ thread \in ThreadSpace
  /\ t_out = <<>>

(* a caller runs _parse_thread_data(thread) *)
ParseThread ==
  /\ Len(t_out) < MaxRuns
  /\ t_out' = Append(t_out, parse_thread_data(thread))
  /\ UNCHANGED thread

NextThread == ParseThread /\ UNCHANGED <<sweep_vars, fetch_vars, extract_vars, price_vars, filter_vars,
                                        cog_vars>>

SpecThread == InitThreads /\ [][NextThread]_vars

(* ----------------------------------------------------------------------- *)
(* The elements of a page.  A data-vue3 element carries the attribute      *)
(* text: whether it holds "ThreadMainListItemNormalizer", and what         *)
(* json.loads makes of it (Invalid stands for JSONDecodeError).  An        *)
(* article.thread element carries what the selectors of                    *)
(* _parse_article_html_selectolax find in it.                              *)
(* ----------------------------------------------------------------------- *)
Invalid == [t |-> "invalid"]

TypeError == [t |-> "TypeError"]

VueElement(marker, json) == [tag |-> "vue", marker |-> marker, json |-> json]

ArticleElement(anchor, href, price, temp) ==
  [tag |-> "article", anchor |-> anchor, href |-> href, price |-> price, temp |-> temp]

(* key in c *)
PyIn(key, c) ==
  CASE c.t = "dict" -> PyBool(key \in DOMAIN c.d)
    [] c.t = "list" -> PyBool(\E n \in 1..Len(c.l) : c.l[n].t = "str" /\ c.l[n].s = <<key>>)
    [] c.t = "str" -> PyBool(Contains(c.s, <<key>>))
    [] OTHER -> TypeError

(* c[key] for a text key *)
PyItem(c, key) == IF c.t = "dict" THEN c.d[key] ELSE TypeError

DealOutcome(d) == [k |-> "deal", deal |-> d]
SkipOutcome == [k |-> "skip"]
RaiseOutcome == [k |-> "raise"]

(* lines 99-107 for a decoded value: an exception other than               *)
(* JSONDecodeError leaves the loop                                         *)
VueItem(vue_data) ==
  LET has_props == PyIn("props", vue_data)
      props == PyItem(vue_data, "props")
      has_thread == PyIn("thread", props)
      deal_opt == parse_thread_data(PyItem(props, "thread"))
  IN  IF has_props = TypeError THEN RaiseOutcome
      ELSE IF ~has_props.b THEN SkipOutcome
      ELSE IF props = TypeError THEN RaiseOutcome
      ELSE IF has_thread = TypeError THEN RaiseOutcome
      ELSE IF ~has_thread.b THEN SkipOutcome
      ELSE IF deal_opt.some THEN DealOutcome(deal_opt.v) ELSE SkipOutcome

(* lines 95-107: one iteration of the loop over the data-vue3 elements *)
VueOutcome(element) ==
  IF ~element.marker THEN SkipOutcome
  ELSE IF element.json = Invalid THEN SkipOutcome
  ELSE VueItem(element.json)

(* int(temp_str), lines 142-145; None stands for the exception *)
ParseInt(s) ==
  LET body == IF s # <<>> /\ s[1] \in {"+", "-"} THEN Tail(s) ELSE s
  IN  IF body # <<>> /\ \A i \in 1..Len(body) : body[i] \in Digits
      THEN Some(IF s[1] = "-" THEN 0 - DigitsVal(body) ELSE DigitsVal(body))
      ELSE None

(* link.startswith('http') *)
IsHttp(s) == s # <<>> /\ s[1] \in {"https://www.pepper.pl", "http://"}

DEGREE == "deg"

(* PepperScraper._parse_article_html_selectolax (lines 126-167); the       *)
(* title, the merchant and the image URL are left out as above             *)
parse_article_html_selectolax(article) ==
  IF ~article.anchor THEN None
  ELSE LET href == article.href
           link == IF Truthy(href) /\ ~IsHttp(href.s) THEN PyStr(BASE_URL \o href.s) ELSE href
           temp_str == IF article.temp.some THEN Replace(article.temp.v, <<DEGREE>>, <<>>)
                       ELSE <<"0">>
           temp == IF ParseInt(temp_str).some THEN ParseInt(temp_str).v ELSE 0
       IN  Some([link |-> link,
                 price |-> article.price,
                 next_best_price |-> None,
                 temperature |-> temp,
                 voucher_code |-> PyNone,
                 posted_timestamp |-> None,
                 status |-> PyStr(<<"unknown">>)])

(* lines 115-118 with a posted_timestamp read off the card *)
ArticleOutcomeStamped(element) ==
  LET deal_opt == parse_article_html_selectolax(element)
  IN  IF deal_opt.some
      THEN DealOutcome([deal_opt.v EXCEPT !.posted_timestamp = Some([aware |-> FALSE, age |-> 30])])
      ELSE SkipOutcome

(* lines 115-118: one iteration of the loop over the article elements *)
ArticleOutcome(element) ==
  LET deal_opt == parse_article_html_selectolax(element)
  IN  IF deal_opt.some THEN DealOutcome(deal_opt.v) ELSE SkipOutcome

(* tree.css('[data-vue3]') and tree.css('article.thread'): the positions   *)
(* of the elements, document order                                         *)
RECURSIVE Positions(_, _, _)
Positions(page, tag, from) ==
  IF from > Len(page) THEN <<>>
  ELSE (IF page[from].tag = tag THEN <<from>> ELSE <<>>) \o Positions(page, tag, from + 1)

vue_elements == Positions(html, "vue", 1)

articles == Positions(html, "article", 1)

(* ----------------------------------------------------------------------- *)
(* The pages                                                               *)
(* ----------------------------------------------------------------------- *)
Island(thread_value) ==
  VueElement(TRUE, PyDict("props" :> PyDict("thread" :> thread_value)))

ListingTv ==
  Island(ThreadOf(PyStr(<<"active">>), PyBool(FALSE), PyBool(FALSE), PyStr(<<"tv">>),
                  PyInt(17), Absent))

ListingShared ==
  Island(ThreadOf(Absent, Absent, Absent, Absent, PyInt(18),
                  PyStr(BASE_URL \o <<"/share/18">>)))

ListingExpired ==
  Island(ThreadOf(PyStr(<<"expired">>), PyBool(TRUE), PyBool(FALSE), PyStr(<<"pc">>),
                  PyInt(3), Absent))

CardOfExpired ==
  ArticleElement(TRUE, PyStr(<<"/promocje/", "pc", "-", "3">>), T80,
                 Some(<<"6", "0", DEGREE>>))

CardAbsolute ==
  ArticleElement(TRUE, PyStr(BASE_URL \o <<"/promocje/", "hifi", "-", "4">>), None, None)

CardWithoutTitle == ArticleElement(FALSE, PyStr(<<>>), None, None)

(* a listing voted cold: temperature -5.3 *)
ListingCold ==
  Island(PyDict([ThreadOf(PyStr(<<"active">>), PyBool(FALSE), PyBool(FALSE), PyStr(<<"ice">>),
                          PyInt(5), Absent).d
                   EXCEPT !["temperature"] = PyFloat(<<0 - 53, 1>>)]))

(* the card of a listing voted cold: "-5" and the degree sign *)
CardCold ==
  ArticleElement(TRUE, PyStr(<<"/promocje/", "ice", "-", "5">>), T80,
                 Some(<<"-", "5", DEGREE>>))

OtherIsland == VueElement(FALSE, Invalid)

BrokenJson == VueElement(TRUE, Invalid)

JsonList == VueElement(TRUE, PyList(<<PyStr(<<"ThreadMainListItemNormalizer">>)>>))

PropsNull == VueElement(TRUE, PyDict("props" :> PyNone))

ThreadNotADict == Island(PyStr(<<"thread">>))

Elements ==
  {ListingTv, ListingShared, ListingExpired, CardOfExpired, CardAbsolute, CardWithoutTitle,
   OtherIsland, BrokenJson, JsonList, PropsNull, ThreadNotADict, ListingCold, CardCold}

Pages == UNION {[1..n -> Elements] : n \in 0..MaxPage}

(* ----------------------------------------------------------------------- *)
(* PepperScraper._extract_deals_from_html (lines 89-124) and the slice of  *)
(* _fetch_and_parse (lines 73-75)                                          *)
(* ----------------------------------------------------------------------- *)
(* return deals, lines 111, 120 and 124 *)
ReturnDeals(d) ==
  /\ extracted' = d
  /\ x_pc' = "returned"
  /\ x_i' = 1
  /\ x_deals' = <<>>

(* lines 109-114 *)
AfterVue ==
  IF x_deals # <<>>
  THEN ReturnDeals(x_deals) /\ UNCHANGED <<x_src, x_ran>>
  ELSE /\ x_pc' = "articles"
       /\ x_i' = 1
       /\ x_ran' = Append(x_ran, "B")
       /\ UNCHANGED <<extracted, x_deals, x_src>>

(* line 73: self._extract_deals_from_html(html) is called; lines 90-94 *)
ExtractCall ==
  /\ x_pc = "idle"
  /\ x_pc' = "vue"
  /\ x_i' = 1
  /\ x_deals' = <<>>
  /\ x_src' = <<>>
  /\ x_ran' = <<"A">>
  /\ UNCHANGED <<html, limit, extracted, f_result>>

(* lines 95-107, and lines 122-124 when the iteration raises *)
VueStep ==
  /\ x_pc = "vue"
  /\ x_i <= Len(vue_elements)
  /\ LET outcome == VueOutcome(html[vue_elements[x_i]])
     IN  CASE outcome.k = "raise" -> ReturnDeals(x_deals) /\ UNCHANGED x_src
           [] outcome.k = "skip" ->
                /\ x_i' = x_i + 1
                /\ UNCHANGED <<x_pc, x_deals, x_src, extracted>>
           [] outcome.k = "deal" ->
                /\ x_i' = x_i + 1
                /\ x_deals' = Append(x_deals, outcome.deal)
                /\ x_src' = Append(x_src, vue_elements[x_i])
                /\ UNCHANGED <<x_pc, extracted>>
  /\ UNCHANGED <<html, limit, f_result, x_ran>>

(* lines 109-114: the loop over the data-vue3 elements is over *)
VueDone ==
  /\ x_pc = "vue"
  /\ x_i > Len(vue_elements)
  /\ AfterVue
  /\ UNCHANGED <<html, limit, f_result>>

(* lines 115-118 *)
ArticleStep ==
  /\ x_pc = "articles"
  /\ x_i <= Len(articles)
  /\ LET outcome == ArticleOutcome(html[articles[x_i]])
     IN  /\ x_i' = x_i + 1
         /\ IF outcome.k = "deal"
            THEN /\ x_deals' = Append(x_deals, outcome.deal)
                 /\ x_src' = Append(x_src, articles[x_i])
            ELSE UNCHANGED <<x_deals, x_src>>
  /\ UNCHANGED <<html, limit, f_result, x_pc, x_ran, extracted>>

(* line 120 *)
ArticlesDone ==
  /\ x_pc = "articles"
  /\ x_i > Len(articles)
  /\ ReturnDeals(x_deals)
  /\ UNCHANGED <<html, limit, f_result, x_src, x_ran>>

(* line 75 *)
Slice ==
  /\ x_pc = "returned"
  /\ x_pc' = "done"
  /\ f_result' = SuccessResult(extracted, limit)
  /\ UNCHANGED <<html, limit, extracted, x_i, x_deals, x_src, x_ran>>

InitPages ==
  /\ InitSweep
  /\ InitCog
  /\ InitFetch
  /\ x_pc = "idle"
  /\ x_i = 1
  /\ x_deals = <<>>
  /\ x_src = <<>>
  /\ x_ran = <<>>
  /\ InitThread
  /\ InitPrice
  /\ InitFilter
  /\ html \in Pages
  /\ limit \in 0..MaxLimit
  /\ extracted = <<>>

NextExtract ==
  \/ ExtractCall /\ UNCHANGED <<sweep_vars, thread_vars, price_vars, filter_vars, fetch_loop,
                 cog_vars>>
  \/ VueStep /\ UNCHANGED <<sweep_vars, thread_vars, price_vars, filter_vars, fetch_loop,
                 cog_vars>>
  \/ VueDone /\ UNCHANGED <<sweep_vars, thread_vars, price_vars, filter_vars, fetch_loop,
                 cog_vars>>
  \/ ArticleStep /\ UNCHANGED <<sweep_vars, thread_vars, price_vars, filter_vars, fetch_loop,
                 cog_vars>>
  \/ ArticlesDone /\ UNCHANGED <<sweep_vars, thread_vars, price_vars, filter_vars, fetch_loop,
                 cog_vars>>
  \/ Slice /\ UNCHANGED <<sweep_vars, thread_vars, price_vars, filter_vars, fetch_loop,
                 cog_vars>>

SpecExtract == InitPages /\ [][NextExtract]_vars

(* ----------------------------------------------------------------------- *)
(* The three price routines applied to one price text                      *)
(* ----------------------------------------------------------------------- *)
FREE_KEYWORDS == {<<"d", "a", "r", "m">>, <<"f", "r", "e", "e">>,
                  <<"b", "e", "z", "p", "l/", "a", "t", "n">>}

(* DealFilter._parse_price (utils/deal_filter.py lines 94-107) *)
DealFilter_parse_price(price_str) ==
  IF ~price_str.some \/ price_str.v = <<>> THEN None
  ELSE LET clean == Clean(price_str.v)
       IN  IF \E keyword \in FREE_KEYWORDS : Contains(clean, keyword)
           THEN Some(<<0, 0>>)
           ELSE ParseFloat(clean)

(* PepperCommands._parse_price (cogs/pepper.py lines 765-774): it returns  *)
(* a float in every case, here Some(the float)                             *)
PepperCommands_parse_price(price_str) ==
  IF ~price_str.some \/ price_str.v = <<>> THEN Some(<<0, 0>>)
  ELSE LET clean == Clean(price_str.v)
       IN  IF \/ Contains(clean, <<"d", "a", "r", "m">>)
              \/ Contains(clean, <<"f", "r", "e", "e">>)
              \/ Contains(clean, <<"b", "e", "z", "p", "l/", "a", "t", "n">>)
           THEN Some(<<0, 0>>)
           ELSE IF ParseFloat(clean).some THEN ParseFloat(clean) ELSE Some(<<0, 0>>)

PriceAlphabet == {"1", "0", ",", " ", "x"}

NamedPriceTexts ==
  {<<"1", "2", ",", "5", "0", " ", "z", "l/">>,
   <<"8", "0", " ", "Z", "L/">>,
   <<"0", " ", "z", "l/">>,
   <<"D", "a", "r", "m", "o", "w", "y">>,
   <<"F", "R", "E", "E">>,
   <<"b", "e", "z", "p", "l/", "a", "t", "n", "i", "e">>,
   <<"1", ".", "2", ".", "3">>,
   <<"n", "a", "n">>,
   <<"-", "5">>,
   <<"z", "l/">>,
   <<"9", "9", " ", "z", "l/", " ", "+", " ", "d", "a", "r", "m", "o", "w", "a", " ",
     "d", "o", "s", "t", "a", "w", "a">>}

PriceTexts ==
  {None} \cup {Some(s) : s \in NamedPriceTexts}
  \cup {Some(s) : s \in UNION {[1..n -> PriceAlphabet] : n \in 0..MaxPriceLen}}

InitPrices ==
  /\ InitSweep
  /\ InitCog
  /\ InitFetch
  /\ InitExtract
  /\ InitThread
  /\ InitFilter
  /\ limit = SEARCH_LIMIT
  /\ extracted = <<>>
  /\ p_text \in PriceTexts
  /\ p_out = <<>>

(* alerts.py line 73 *)
ParseForAlert ==
  /\ "AlertsManager" \notin DOMAIN p_out
  /\ p_out' = p_out @@ ("AlertsManager" :> parse_price(p_text))
  /\ UNCHANGED p_text

(* deal_filter.py line 61 *)
ParseForFilter ==
  /\ "DealFilter" \notin DOMAIN p_out
  /\ p_out' = p_out @@ ("DealFilter" :> DealFilter_parse_price(p_text))
  /\ UNCHANGED p_text

(* pepper.py line 691 *)
ParseForCategory ==
  /\ "PepperCommands" \notin DOMAIN p_out
  /\ p_out' = p_out @@ ("PepperCommands" :> PepperCommands_parse_price(p_text))
  /\ UNCHANGED p_text

NextPrice ==
  \/ ParseForAlert /\ UNCHANGED <<sweep_vars, fetch_vars, extract_vars, thread_vars, filter_vars,
                     cog_vars>>
  \/ ParseForFilter /\ UNCHANGED <<sweep_vars, fetch_vars, extract_vars, thread_vars, filter_vars,
                     cog_vars>>
  \/ ParseForCategory /\ UNCHANGED <<sweep_vars, fetch_vars, extract_vars, thread_vars, filter_vars,
                     cog_vars>>

SpecPrice == InitPrices /\ [][NextPrice]_vars

(* ----------------------------------------------------------------------- *)
(* DealFilter.filter_deals (utils/deal_filter.py lines 14-92).  A run ends *)
(* in [raised, deals]: the list it returned, or the exception that left    *)
(* it.  current_time is the naive datetime.now() of line 27; a             *)
(* posted_timestamp is a datetime or None (the extractor makes no str).    *)
(* ----------------------------------------------------------------------- *)
Returned(list) == [raised |-> FALSE, deals |-> list]

Raises == [raised |-> TRUE, deals |-> <<>>]

(* lines 32-49 *)
FilterFreshness(d) ==
  LET posted_time == d.posted_timestamp
  IN  IF ~posted_time.some THEN PASS
      ELSE IF posted_time.v.aware THEN RAISE
      ELSE IF posted_time.v.age > FRESHNESS_CUTOFF_HOURS THEN SKIP
      ELSE PASS

(* line 29 written as "min_temperature or MIN_TEMPERATURE" *)
ThresholdOrDefault(min_temperature) ==
  IF min_temperature.some /\ min_temperature.v # 0 THEN min_temperature.v ELSE MIN_TEMPERATURE

(* line 29 *)
Threshold(min_temperature) ==
  IF min_temperature.some THEN min_temperature.v ELSE MIN_TEMPERATURE

(* lines 51-58 *)
FilterTemperature(d, min_temperature) ==
  IF d.temperature < Threshold(min_temperature) THEN SKIP ELSE PASS

(* lines 60-81 *)
FilterPrice(d, max_price) ==
  LET deal_price == DealFilter_parse_price(d.price)
  IN  IF ~deal_price.some THEN SKIP
      ELSE IF FloatGT(deal_price.v, MAX_REASONABLE_PRICE) THEN SKIP
      ELSE IF /\ max_price.some
              /\ FloatGT(deal_price.v, 0)
              /\ FloatGT(deal_price.v, max_price.v)
           THEN SKIP
      ELSE PASS

(* lines 32-81: what one iteration of the loop makes of a deal *)
FilterOutcome(d, opts) ==
  LET fresh == IF opts.check_freshness THEN FilterFreshness(d) ELSE PASS
      warm == IF opts.check_temperature THEN FilterTemperature(d, opts.min_temperature) ELSE PASS
      priced == IF opts.check_price THEN FilterPrice(d, opts.max_price) ELSE PASS
  IN  IF fresh # PASS THEN fresh
      ELSE IF warm # PASS THEN warm
      ELSE priced

(* line 83 with the deal put in front *)
KeepInFront(list, d) == <<d>> \o list

(* line 83 with the deal changed on the way *)
KeepCooled(list, d) == Append(list, [d EXCEPT !.temperature = @ - 10])

(* line 83: filtered.append(deal) *)
Keep(list, d) == Append(list, d)

(* lines 31-83 *)
RECURSIVE FilterLoop(_, _, _)
FilterLoop(rest, opts, list) ==
  IF rest = <<>> THEN Returned(list)
  ELSE LET outcome == FilterOutcome(Head(rest), opts)
       IN  IF outcome = RAISE THEN Raises
           ELSE FilterLoop(Tail(rest), opts,
                           IF outcome = PASS THEN Keep(list, Head(rest)) ELSE list)

filter_deals(deals_arg, opts) ==
  IF deals_arg = <<>> THEN Returned(<<>>) ELSE FilterLoop(deals_arg, opts, <<>>)

(* the gates of check_alerts with the price gate left out *)
MatcherOutcomeNoPriceGate(d) ==
  IF FreshnessGate(d) # PASS THEN FreshnessGate(d) ELSE TemperatureGate(d)

(* alerts.py lines 54-81 for one deal *)
MatcherOutcome(d) == GateOutcome(d)

(* alerts.py lines 53-81 over the deals of a page: the deals that reach    *)
(* the loop over the subscribers (line 83)                                 *)
RECURSIVE MatcherLoop(_, _)
MatcherLoop(rest, list) ==
  IF rest = <<>> THEN Returned(list)
  ELSE LET outcome == MatcherOutcome(Head(rest))
       IN  IF outcome = RAISE THEN Raises
           ELSE MatcherLoop(Tail(rest), IF outcome = PASS THEN Append(list, Head(rest)) ELSE list)

(* ----------------------------------------------------------------------- *)
(* filter_deals applied to a batch of deals, then to its own output, and   *)
(* the gates of check_alerts applied to the same batch                     *)
(* ----------------------------------------------------------------------- *)
(* the deal Strategy A makes of a listing published at the given instant *)
ListedDeal(link, published_at) ==
  LET d == parse_thread_data(PyDict(("price" :> PyInt(80)) @@ ("temperature" :> PyInt(60))
                                    @@ ("publishedAt" :> published_at))).v
  IN  Deal(link, d.price, d.temperature, d.posted_timestamp)

(* the deal Strategy B makes of an article card *)
CardDeal(link) ==
  LET d == parse_article_html_selectolax(CardOfExpired).v
  IN  Deal(link, d.price, d.temperature, d.posted_timestamp)

FilterPool ==
  {CardDeal("l1"),
   ListedDeal("l1", PyStr(<<"1 hour ago", "Z">>)),
   ListedDeal("l2", PyStr(<<"30 hours ago", "Z">>)),
   ListedDeal("l2", PyStr(<<"1 hour ago">>)),
   ListedDeal("l1", PyStr(<<"30 hours ago">>)),
   Deal("l1", T80, 40, None),
   Deal("l2", TFree, 50, None),
   Deal("l1", None, 60, None),
   Deal("l2", Some(<<"x">>), 60, None),
   Deal("l1", Some(<<"n", "a", "n", " ", "z", "l/">>), 60, None),
   Deal("l1", THuge, 60, None)}

OptionValues ==
  [check_freshness : BOOLEAN, check_temperature : BOOLEAN, check_price : BOOLEAN,
   min_temperature : {None, Some(0)}, max_price : {None, Some(50)}]

InitFilters ==
  /\ InitSweep
  /\ InitCog
  /\ InitFetch
  /\ InitExtract
  /\ InitThread
  /\ InitPrice
  /\ limit = SEARCH_LIMIT
  /\ extracted = <<>>
  /\ filter_in \in UNION {[1..n -> FilterPool] : n \in 0..MaxBatch}
  /\ filter_opts \in OptionValues
  /\ filter_out = <<>>
  /\ matcher_out = <<>>

(* a caller runs filter_deals: on the batch, then on what the last run     *)
(* returned                                                                *)
FilterCall ==
  /\ Len(filter_out) < MaxRuns
  /\ filter_out # <<>> => ~filter_out[Len(filter_out)].raised
  /\ LET arg == IF filter_out = <<>> THEN filter_in ELSE filter_out[Len(filter_out)].deals
     IN  filter_out' = Append(filter_out, filter_deals(arg, filter_opts))
  /\ UNCHANGED <<filter_in, filter_opts, matcher_out>>

(* check_alerts takes the batch as the deals of a result page *)
MatcherGates ==
  /\ matcher_out = <<>>
  /\ matcher_out' = <<MatcherLoop(filter_in, <<>>)>>
  /\ UNCHANGED <<filter_in, filter_opts, filter_out>>

NextFilter ==
  \/ FilterCall /\ UNCHANGED <<sweep_vars, fetch_vars, extract_vars, thread_vars, price_vars,
                  cog_vars>>
  \/ MatcherGates /\ UNCHANGED <<sweep_vars, fetch_vars, extract_vars, thread_vars, price_vars,
                  cog_vars>>

SpecFilter == InitFilters /\ [][NextFilter]_vars

(* ----------------------------------------------------------------------- *)
(* Properties                                                              *)
(* ----------------------------------------------------------------------- *)
NotifiedInSweep(alert_id, link) ==
  {i \in 1..Len(notifications) : origin[i] = alert_id /\ notifications[i].deal.link = link}

EmittedForKey(alert_id, link) ==
  emitted[<<1, alert_id, link>>] + emitted[<<2, alert_id, link>>]

EmittedForUser(user_id, link) ==
  emitted[<<user_id, 1, link>>] + emitted[<<user_id, 2, link>>] + emitted[<<user_id, 3, link>>]

HasDuplicateRow == \E i, j \in 1..Len(subscribers) : i < j /\ subscribers[i] = subscribers[j]

(* the key the inner loop is at *)
CurrentKey == <<subscribers[si].id, deal.link>>

(* C1: within one sweep, for every pair (alert_id, deal_link) at most one  *)
(* notification is appended, also when the page repeats a link or the      *)
(* subscriber list repeats an alert.                                       *)
C1_OncePerKeyPerSweep ==
  \A k \in AllKeys : Cardinality(NotifiedInSweep(k[1], k[2])) <= 1

(* C1 witness: the first deal of the sweep went through a subscriber list  *)
(* that holds a row twice, and that row's alert was notified.              *)
C1_Witness ==
  /\ pc = "deal"
  /\ di = 1
  /\ Cardinality(fetched) = 1
  /\ HasDuplicateRow
  /\ \E i \in 1..Len(notifications) : origin[i] = subscribers[Len(subscribers)].id

(* C2: over all sweeps, for every pair (alert_id, deal_link) at most one   *)
(* notification is returned in total.                                      *)
C2_OncePerKeyOverSweeps ==
  \A k \in AllKeys : EmittedForKey(k[1], k[2]) <= 1

(* C2 witness: the second sweep met a key that the first sweep notified    *)
(* and wrote to the ledger, and returned.                                  *)
C2_Witness ==
  /\ pc = "idle"
  /\ sweepNo = 2
  /\ last = "returned"
  /\ \E k \in ledger0 \cap resolved : EmittedForKey(k[1], k[2]) = 1

(* C3, as claimed: for every user and deal link at most one notification   *)
(* is returned over all sweeps, whatever alerts the user owns.             *)
C3_OncePerUser ==
  \A u \in Users, l \in Links : EmittedForUser(u, l) <= 1

(* C3, amended: for every user and deal link at most one notification per  *)
(* alert of that user is returned over all sweeps.                         *)
C3_OncePerUserAlert ==
  \A u \in Users, l \in Links :
    EmittedForUser(u, l) <= Cardinality({a \in AlertIds : AlertRow(a).user_id = u})

(* C3 witness: a user with two alerts was notified of one deal twice.      *)
C3_Witness ==
  \E u \in Users, l \in Links : EmittedForUser(u, l) = 2

(* C4: a key that is neither in the in-memory set nor in the ledger is     *)
(* left alone (no notification, not staged, not in the in-memory set) when *)
(* the cap is set and the price is above 0 and above the cap, and is       *)
(* notified and staged otherwise; a sweep that returns has written every   *)
(* staged key to the ledger.                                               *)
C4_CapRejectionLeavesKeyUnmarked ==
  [][/\ (/\ pc = "pair"
         /\ last' # "raised"
         /\ CurrentKey \notin seen_in_cycle
         /\ CurrentKey \notin ledger)
        => LET max_price == subscribers[si].max_price
               price == parse_price(deal.price).v
           IN  IF max_price.some /\ FloatGT(price, 0) /\ FloatGT(price, max_price.v)
               THEN UNCHANGED <<notifications, batch_seen, seen_in_cycle>>
               ELSE /\ notifications' =
                         Append(notifications,
                                [user_id |-> subscribers[si].user_id, deal |-> deal,
                                 query |-> unique_queries[qi]])
                    /\ batch_seen' = Append(batch_seen, CurrentKey)
                    /\ CurrentKey \in seen_in_cycle'
     /\ (pc = "query" /\ last' = "returned") => Range(batch_seen) \subseteq ledger'
    ]_vars

(* C4 witness: the first deal the second sweep processed was notified and  *)
(* staged for a key that the cap had rejected in the first sweep.          *)
C4_Witness ==
  /\ sweepNo = 2
  /\ Cardinality(fetched) = 1
  /\ di = 1
  /\ \E k \in rejected : batch_seen = <<k>> /\ k \notin ledger

(* C5: a sweep in which every key that was looked up is already in the     *)
(* ledger returns no notification and makes no mark_deals_seen_batch call. *)
C5_NothingNewNothingWritten ==
  (pc = "idle" /\ last = "returned" /\ looked \subseteq ledger0)
    => returned = <<>> /\ write_log = <<>>

(* C5 witness: the second sweep looked keys up, all of them in the ledger. *)
C5_Witness ==
  /\ pc = "idle"
  /\ last = "returned"
  /\ sweepNo = 2
  /\ looked # {}
  /\ looked \subseteq ledger0

(* C6: the in-memory set is asked first, the ledger second, the cap third: *)
(* a key in the in-memory set causes no lookup, no price check and no      *)
(* notification; a key found in the ledger goes into the in-memory set     *)
(* with no price check; no key that was found in the ledger or notified in *)
(* this sweep is looked up again in it.                                    *)
C6_ResolutionOrder ==
  [][/\ requeried' = {}
     /\ (pc = "pair" /\ CurrentKey \in seen_in_cycle)
          => UNCHANGED <<looked, notifications, batch_seen, seen_in_cycle, rejected>>
     /\ (pc = "pair" /\ CurrentKey \notin seen_in_cycle /\ CurrentKey \in ledger
         /\ last' # "raised")
          => /\ CurrentKey \in seen_in_cycle'
             /\ CurrentKey \in looked'
             /\ UNCHANGED <<notifications, batch_seen, rejected>>
    ]_vars

(* C6 witness: the first deal of the second sweep went through a list that *)
(* holds a row twice, and that row's key was found in the ledger.          *)
C6_Witness ==
  /\ pc = "deal"
  /\ di = 1
  /\ Cardinality(fetched) = 1
  /\ HasDuplicateRow
  /\ notifications = <<>>
  /\ \E l \in Links : <<subscribers[Len(subscribers)].id, l>> \in ledger0 \cap resolved

(* C7: a sweep calls mark_deals_seen_batch at most once, not before the    *)
(* last query is done (while the sweep runs, nothing is written and the    *)
(* ledger is as it was), and no batch holds a key twice.                   *)
C7_OneBatchAtTheEnd ==
  /\ Len(write_log) <= 1
  /\ pc # "idle" => write_log = <<>> /\ ledger = ledger0
  /\ \A n \in 1..Len(write_log) : Cardinality(Range(write_log[n])) = Len(write_log[n])
  /\ Cardinality(Range(batch_seen)) = Len(batch_seen)

(* C7 witness: a sweep over two queries wrote one batch of several keys.   *)
C7_Witness ==
  /\ pc = "idle"
  /\ last = "returned"
  /\ Cardinality(fetched) = 2
  /\ Len(write_log) = 1
  /\ Len(write_log[1]) >= 2
  /\ Range(write_log[1]) \subseteq ledger

(* C8: a query whose fetch failed, or that has no subscriber, is skipped:  *)
(* the loop goes to the next query, and the notifications, the staged      *)
(* keys, the in-memory set, the lookups and the ledger are unchanged.      *)
C8_SkippedQueryLeavesNoTrace ==
  [][(\/ pc = "query" /\ result' = FAILURE /\ pc' = "query"
      \/ pc = "subs" /\ pc' = "query")
       => /\ qi' = qi + 1
          /\ UNCHANGED <<notifications, batch_seen, seen_in_cycle, looked, resolved,
                         ledger, write_log>>
    ]_vars

(* C8 witness: the first query was notified, the fetch of the second       *)
(* failed, and the notifications are still there.                          *)
C8_Witness ==
  /\ pc = "query"
  /\ qi = 3
  /\ result = FAILURE
  /\ notifications # <<>>

(* C9, as claimed: when a sweep ends by an error raised in the gates of a  *)
(* deal or in a ledger lookup, every query of the sweep has been fetched.  *)
C9_FailureSkipsOnlyItsQuery ==
  (pc = "idle" /\ last = "raised" /\ cause \in {"gates", "is_deal_seen_by_alert"})
    => fetched = Range(unique_queries)

(* C10: no exception leaves _fetch_and_parse, and what it returns is tagged: *)
(* success with the deals, or failure with an error text and no deal.      *)
C10_AlwaysTaggedResult ==
  /\ ~f_raised
  /\ f_pc = "done" =>
       /\ ~f_result.pending
       /\ IF f_result.success
          THEN DOMAIN f_result = {"success", "deals", "total", "pending"}
          ELSE /\ DOMAIN f_result = {"success", "error", "deals", "pending"}
               /\ f_result.deals = <<>>

(* C10 witness: a call whose last step raised an unexpected exception      *)
(* returned a failure.                                                     *)
C10_Witness ==
  /\ f_pc = "done"
  /\ f_log # <<>>
  /\ f_log[Len(f_log)] = "Exception"
  /\ ~f_result.success
  /\ f_result.error = "boom"

(* ----------------------------------------------------------------------- *)
(* Properties of the fetcher's retry loop                                  *)
(* ----------------------------------------------------------------------- *)
(* what f_log holds for a transient and for a permanent end of an attempt  *)
TransientLog == {StatusText(s) : s \in TRANSIENT_STATUS} \cup {e.kind : e \in NetworkErrors}

PermanentLog == {StatusText(s) : s \in Statuses \ (TRANSIENT_STATUS \cup {200})}

(* how each attempt ended: the entry of a 200 status is followed by the    *)
(* entry of the body read of the same attempt                              *)
AttemptEnds == SelectSeq(f_log, LAMBDA x : x # StatusText(200))

AllAttemptsTransient ==
  /\ AttemptEnds # <<>>
  /\ \A i \in 1..Len(AttemptEnds) : AttemptEnds[i] \in TransientLog

(* C11, as claimed: a call all of whose attempts ended in a transient      *)
(* failure (status 429/500/502/503/504, network error or timeout, any mix) *)
(* made exactly 3 requests and returned the failure "Max retries           *)
(* exceeded", and no other call returns that error text.                   *)
C11_AllTransientGivesMaxRetries ==
  f_pc = "done" =>
    /\ AllAttemptsTransient =>
         /\ requests = RETRIES
         /\ f_result = FailureResult("Max retries exceeded")
    /\ (~f_result.success /\ f_result.error = "Max retries exceeded") =>
         AllAttemptsTransient /\ requests = RETRIES

(* C12: an attempt that got a non-200 status outside 429/500/502/503/504   *)
(* is the last thing the call did: the call is over with the failure       *)
(* tagged "HTTP <status>", every sleep so far followed an earlier attempt, *)
(* and the requests are those of the attempts up to this one.              *)
C12_PermanentFailsAtOnce ==
  \A i \in 1..Len(f_log) :
    f_log[i] \in PermanentLog =>
      /\ i = Len(f_log)
      /\ f_pc = "done"
      /\ f_result = FailureResult(f_log[i])
      /\ Len(sleeps) = attempt
      /\ requests = attempt + 1

(* C12 witness: the third attempt got a permanent status after two         *)
(* transient attempts.                                                     *)
C12_Witness ==
  /\ f_pc = "done"
  /\ attempt = RETRIES - 1
  /\ f_log # <<>>
  /\ f_log[Len(f_log)] \in PermanentLog
  /\ f_result.error = f_log[Len(f_log)]
  /\ sleeps = <<BACKOFF_BASE, 2 * BACKOFF_BASE>>

(* C13, as claimed: the i-th sleep lasts i times the base delay, a sleep   *)
(* is started only when another attempt follows it, and a finished call    *)
(* has slept once between each two consecutive requests and at no other    *)
(* time.                                                                   *)
C13_SleepsBetweenAttemptsOnly ==
  /\ \A i \in 1..Len(sleeps) : sleeps[i] = BACKOFF_BASE * i
  /\ f_pc = "sleep" => attempt + 1 < RETRIES
  /\ (f_pc = "done" /\ requests > 0) => Len(sleeps) = requests - 1

(* ----------------------------------------------------------------------- *)
(* Properties of _parse_thread_data                                        *)
(* ----------------------------------------------------------------------- *)
(* the key is in the thread and its value is truthy *)
ThreadHas(key) == key \in DOMAIN thread.d /\ Truthy(thread.d[key])

(* the thread's status is expired, archived or deleted, or one of its      *)
(* flags isExpired, isArchived is set                                      *)
ThreadIsUnavailable ==
  /\ thread.t = "dict"
  /\ \/ ThreadHas("isExpired")
     \/ ThreadHas("isArchived")
     \/ /\ "status" \in DOMAIN thread.d
        /\ thread.d["status"] \in {PyStr(<<"expired">>), PyStr(<<"archived">>),
                                   PyStr(<<"deleted">>)}

(* C15: for a thread whose status is expired, archived or deleted, or      *)
(* whose isExpired or isArchived flag is set, every run of                 *)
(* _parse_thread_data returns no deal.                                     *)
C15_UnavailableThreadGivesNoDeal ==
  ThreadIsUnavailable => \A i \in 1..Len(t_out) : t_out[i] = None

(* C15 witness: a thread with status active and the isArchived flag set    *)
(* (isExpired false) was parsed and gave no deal.                          *)
C15_Witness ==
  /\ thread.t = "dict"
  /\ {"status", "isExpired", "isArchived"} \subseteq DOMAIN thread.d
  /\ thread.d["status"] = PyStr(<<"active">>)
  /\ thread.d["isExpired"] = PyBool(FALSE)
  /\ thread.d["isArchived"] = PyBool(TRUE)
  /\ t_out = <<None>>

(* C19: the link of the deal a thread maps to is the base URL followed by  *)
(* /promocje/<slug>-<id> when the thread has a slug and an id, and the     *)
(* thread's share link (the empty text when it has none) otherwise; every  *)
(* run on the same thread returns the same deal.                           *)
C19_LinkIsAFunctionOfTheThread ==
  \A i \in 1..Len(t_out) :
    t_out[i].some =>
      /\ t_out[i].v.link =
           IF ThreadHas("titleSlug") /\ ThreadHas("threadId")
           THEN PyStr(BASE_URL \o <<"/promocje/">> \o thread.d["titleSlug"].s \o <<"-">>
                      \o IntText(thread.d["threadId"].i))
           ELSE IF "shareableLink" \in DOMAIN thread.d THEN thread.d["shareableLink"]
           ELSE PyStr(<<>>)
      /\ t_out[i] = t_out[1]

(* C19 witness: a thread with slug tv, id 17 and a share link was parsed   *)
(* twice and both runs gave the link .../promocje/tv-17.                   *)
C19_Witness ==
  /\ Len(t_out) = 2
  /\ t_out[2].some
  /\ ThreadHas("shareableLink")
  /\ t_out[1].v.link = PyStr(<<"https://www.pepper.pl", "/promocje/", "tv", "-", "1", "7">>)
  /\ t_out[2].v.link = t_out[1].v.link

(* ----------------------------------------------------------------------- *)
(* Properties of the extraction                                            *)
(* ----------------------------------------------------------------------- *)
(* _extract_deals_from_html has returned *)
Extracted == x_pc \in {"returned", "done"}

(* the deals of the result that Strategy A made, by their index *)
FromStrategyA == {i \in 1..Len(x_src) : html[x_src[i]].tag = "vue"}

(* the data-vue3 elements that hold a listing thread: the positions whose  *)
(* attribute decodes to an object with an object "props" with a "thread"   *)
ListingIslands ==
  {p \in Range(vue_elements) :
     /\ html[p].marker
     /\ html[p].json.t = "dict"
     /\ "props" \in DOMAIN html[p].json.d
     /\ html[p].json.d["props"].t = "dict"
     /\ "thread" \in DOMAIN html[p].json.d["props"].d}

IslandThread(p) == html[p].json.d["props"].d["thread"]

(* the links of the listings that the page's islands mark as unavailable *)
MarkedUnavailable ==
  {ThreadLink(IslandThread(p).d) :
     p \in {q \in ListingIslands :
              /\ IslandThread(q).t = "dict"
              /\ IsUnavailable(Get(IslandThread(q).d, "status", PyStr(<<"unknown">>)),
                               Get(IslandThread(q).d, "isExpired", PyBool(FALSE)),
                               Get(IslandThread(q).d, "isArchived", PyBool(FALSE)))}}

(* C14, as claimed: Strategy A runs first; when it made a deal, all deals  *)
(* of the result are its deals and Strategy B did not run; Strategy B ran  *)
(* if and only if Strategy A made no deal; an empty extraction makes the   *)
(* fetch result a success with no deal and no error.                       *)
C14_FallbackIffPrimaryEmpty ==
  Extracted =>
    /\ x_ran[1] = "A"
    /\ FromStrategyA # {} => x_ran = <<"A">> /\ FromStrategyA = 1..Len(x_src)
    /\ (x_ran = <<"A", "B">>) <=> (FromStrategyA = {})
    /\ (x_pc = "done" /\ extracted = <<>>) =>
         /\ f_result.success
         /\ f_result.deals = <<>>
         /\ "error" \notin DOMAIN f_result

(* C16, as claimed: no deal of the extraction result has the link of a     *)
(* listing that an island of the page marks as unavailable.                *)
C16_UnavailableNeverReturned ==
  Extracted => \A i \in 1..Len(extracted) : extracted[i].link \notin MarkedUnavailable

(* C17, as claimed: every well-formed island of the page (one that maps to *)
(* a deal) is in the result of Strategy A, whatever malformed islands      *)
(* stand before or after it.                                               *)
C17_MalformedItemSkippedAlone ==
  Extracted =>
    \A p \in Range(vue_elements) :
      VueOutcome(html[p]).k = "deal" =>
        \E i \in 1..Len(x_src) : x_src[i] = p /\ extracted[i] = VueOutcome(html[p]).deal

(* the deal the winning strategy makes of the element at position p *)
DealAt(p) ==
  IF html[p].tag = "vue" THEN VueOutcome(html[p]).deal ELSE ArticleOutcome(html[p]).deal

(* the positions whose element the winning strategy maps to a deal *)
Mapped ==
  IF x_ran = <<"A", "B">>
  THEN {p \in Range(articles) : ArticleOutcome(html[p]).k = "deal"}
  ELSE {p \in Range(vue_elements) : VueOutcome(html[p]).k = "deal"}

NoItemRaises == \A p \in Range(vue_elements) : VueOutcome(html[p]).k # "raise"

(* C18: the extracted deals are in document order (the positions behind    *)
(* them increase), they are all the deals of the winning strategy when no  *)
(* item raised, and the fetch result holds the first min(limit, length)    *)
(* of them, in that order, with total the length of the whole sequence.    *)
C18_OrderKeptSlicedAfter ==
  /\ \A i, j \in 1..Len(x_src) : i < j => x_src[i] < x_src[j]
  /\ Extracted =>
       /\ Len(extracted) = Len(x_src)
       /\ \A i \in 1..Len(x_src) : extracted[i] = DealAt(x_src[i])
       /\ NoItemRaises => Range(x_src) = Mapped
  /\ x_pc = "done" =>
       /\ f_result.success
       /\ Len(f_result.deals) = IF limit < Len(extracted) THEN limit ELSE Len(extracted)
       /\ \A i \in 1..Len(f_result.deals) : f_result.deals[i] = extracted[i]
       /\ f_result.total = Len(extracted)

(* C18 witness: a page of three listings was fetched with limit 2: the     *)
(* result holds the first two and total 3.                                 *)
C18_Witness ==
  /\ x_pc = "done"
  /\ limit = 2
  /\ Len(extracted) = 3
  /\ extracted[1] # extracted[2]
  /\ f_result.deals = <<extracted[1], extracted[2]>>
  /\ f_result.total = 3

(* ----------------------------------------------------------------------- *)
(* Properties of the price routines                                        *)
(* ----------------------------------------------------------------------- *)
PriceMissing == ~p_text.some \/ p_text.v = <<>>

PriceIsFree == p_text.some /\ \E keyword \in FREE_KEYWORDS : Contains(Clean(p_text.v), keyword)

(* the text, without the currency marker and spaces and with a dot for the *)
(* decimal comma, is a number *)
PriceIsNumber == p_text.some /\ ParseFloat(Clean(p_text.v)).some

PriceUnparsable == p_text.some /\ p_text.v # <<>> /\ ~PriceIsFree /\ ~PriceIsNumber

IsZero(x) == x.some /\ ~IsSpecial(x.v) /\ x.v[1] = 0

(* C20, as claimed: each of the three routines returns null for a missing  *)
(* or unparsable price text, and returns 0 only for a text with a free     *)
(* keyword or a text that is the number 0.                                 *)
C20_NullWhenUnparsable ==
  \A r \in DOMAIN p_out :
    /\ (PriceMissing \/ PriceUnparsable) => p_out[r] = None
    /\ IsZero(p_out[r]) =>
         \/ PriceIsFree
         \/ PriceIsNumber /\ IsZero(ParseFloat(Clean(p_text.v)))

(* ----------------------------------------------------------------------- *)
(* C21                                                                     *)
(* ----------------------------------------------------------------------- *)
(* the source amount under a key of the thread is present: a number *)
AmountPresent(key) ==
  /\ thread.t = "dict"
  /\ key \in DOMAIN thread.d
  /\ thread.d[key].t \in {"int", "float"}

(* the number a source amount stands for *)
AmountOf(key) ==
  IF thread.d[key].t = "int" THEN <<thread.d[key].i, 0>> ELSE Shortest(thread.d[key].f)

(* the rendered text is "<amount> zl/" and the filter's parser gives the amount back *)
RendersAndRoundTrips(key, text) ==
  /\ text = Some(Text(thread.d[key]) \o <<" ">> \o ZL)
  /\ DealFilter_parse_price(text).some
  /\ ~IsSpecial(DealFilter_parse_price(text).v)
  /\ Shortest(DealFilter_parse_price(text).v) = AmountOf(key)

(* C21: Strategy A renders the price and the next-best price of a thread   *)
(* as "<amount> zl/" whenever the source amount is present, as null when   *)
(* it is absent, and DealFilter._parse_price maps the rendered text back   *)
(* to the source amount.                                                   *)
C21_PriceRenderedAndRoundTrips ==
  \A n \in 1..Len(t_out) :
    t_out[n].some =>
      /\ IF AmountPresent("price")
         THEN RendersAndRoundTrips("price", t_out[n].v.price)
         ELSE t_out[n].v.price = None
      /\ IF AmountPresent("nextBestPrice")
         THEN RendersAndRoundTrips("nextBestPrice", t_out[n].v.next_best_price)
         ELSE t_out[n].v.next_best_price = None

(* ----------------------------------------------------------------------- *)
(* C22, C23                                                                *)
(* ----------------------------------------------------------------------- *)
(* C22: filter_deals applied to its own output, with the same gates and    *)
(* the same current time, returns that output unchanged.                   *)
C22_FilterIdempotent ==
  \A n \in 2..Len(filter_out) :
    /\ ~filter_out[n].raised
    /\ filter_out[n].deals = filter_out[n - 1].deals

(* the filter ran on its own output, which kept a deal and dropped another *)
C22_Witness ==
  /\ Len(filter_out) = 2
  /\ filter_out[1].deals # <<>>
  /\ Len(filter_out[1].deals) < Len(filter_in)
  /\ filter_out[2].deals = filter_out[1].deals

(* s is t with some elements left out, the others in their order *)
RECURSIVE IsSubsequence(_, _)
IsSubsequence(s, t) ==
  IF s = <<>> THEN TRUE
  ELSE IF t = <<>> THEN FALSE
  ELSE IF Head(s) = Head(t) THEN IsSubsequence(Tail(s), Tail(t))
  ELSE IsSubsequence(s, Tail(t))

(* C23: filter_deals leaves its input sequence and the deals in it         *)
(* unchanged, and returns a subsequence of the input: survivors keep their *)
(* relative order.                                                         *)
C23_FilterPure ==
  [][FilterCall =>
       /\ filter_in' = filter_in
       /\ LET arg == IF filter_out = <<>> THEN filter_in
                     ELSE filter_out[Len(filter_out)].deals
              run == filter_out'[Len(filter_out')]
          IN  ~run.raised => IsSubsequence(run.deals, arg)]_vars

(* a run kept two different deals of the batch, in their order *)
C23_Witness ==
  /\ filter_out # <<>>
  /\ Len(filter_in) >= 2
  /\ filter_out[1].deals = filter_in
  /\ filter_in[1] # filter_in[2]

(* ----------------------------------------------------------------------- *)
(* C24, C25, C26                                                           *)
(* ----------------------------------------------------------------------- *)
(* the deals of the batch that the first run returned *)
Survivors == Range(filter_out[1].deals)

(* only the named gate is enabled *)
OnlyGate(gate) ==
  /\ filter_opts.check_freshness = (gate = "freshness")
  /\ filter_opts.check_temperature = (gate = "temperature")
  /\ filter_opts.check_price = (gate = "price")

(* C24: with the freshness gate enabled, a deal whose posted_timestamp is  *)
(* present and older than 24 hours is not in the output, a deal without    *)
(* posted_timestamp is kept by this gate, and the gate never fails on a    *)
(* deal the extractor produces.                                            *)
C24_FreshnessGate ==
  (filter_out # <<>> /\ filter_opts.check_freshness) =>
    /\ ~filter_out[1].raised
    /\ \A i \in 1..Len(filter_in) :
         (/\ filter_in[i].posted_timestamp.some
          /\ filter_in[i].posted_timestamp.v.age > FRESHNESS_CUTOFF_HOURS)
           => filter_in[i] \notin Survivors
    /\ OnlyGate("freshness") =>
         \A i \in 1..Len(filter_in) :
           ~filter_in[i].posted_timestamp.some => filter_in[i] \in Survivors


(* the threshold the claim names: 50 unless the caller supplies one *)
NamedThreshold ==
  IF filter_opts.min_temperature.some THEN filter_opts.min_temperature.v ELSE 50

(* C25: with the temperature gate enabled a deal is rejected if and only   *)
(* if its temperature is strictly below the threshold, 50 unless the       *)
(* caller supplies one (0 is honoured): 40 is rejected, 50 and 60 pass at  *)
(* the default.                                                            *)
C25_TemperatureGate ==
  (filter_out # <<>> /\ filter_opts.check_temperature /\ ~filter_out[1].raised) =>
    /\ \A i \in 1..Len(filter_in) :
         filter_in[i].temperature < NamedThreshold => filter_in[i] \notin Survivors
    /\ OnlyGate("temperature") =>
         \A i \in 1..Len(filter_in) :
           filter_in[i].temperature >= NamedThreshold => filter_in[i] \in Survivors

(* at the default threshold a deal at 40 was dropped and a deal at 50 kept *)
C25_Witness ==
  /\ filter_out # <<>>
  /\ OnlyGate("temperature")
  /\ ~filter_opts.min_temperature.some
  /\ Len(filter_in) = 2
  /\ filter_in[1].temperature = 40
  /\ filter_in[2].temperature = 50
  /\ filter_out[1] = Returned(<<filter_in[2]>>)


(* what the filter's parser makes of the price text of a deal *)
ParsedPrice(d) == DealFilter_parse_price(d.price)

(* the price text is there and stands for a number *)
PriceIsANumber(d) == ParsedPrice(d).some /\ ParsedPrice(d).v # NaN

(* C26: with the price gate enabled, a deal whose price text is missing or *)
(* is not a number is rejected and the run does not fail on it, a deal     *)
(* priced above 1,000,000 is rejected, and a deal priced 0 or anything up  *)
(* to 1,000,000 passes.                                                    *)
C26_PriceValidityGate ==
  (filter_out # <<>> /\ filter_opts.check_price) =>
    /\ OnlyGate("price") => ~filter_out[1].raised
    /\ \A i \in 1..Len(filter_in) :
         LET d == filter_in[i]
         IN  /\ ~PriceIsANumber(d) => d \notin Survivors
             /\ (PriceIsANumber(d) /\ FloatGT(ParsedPrice(d).v, 1000000)) => d \notin Survivors
             /\ (/\ PriceIsANumber(d)
                 /\ ~FloatGT(ParsedPrice(d).v, 1000000)
                 /\ OnlyGate("price")
                 /\ ~filter_opts.max_price.some) => d \in Survivors


(* ----------------------------------------------------------------------- *)
(* C27                                                                     *)
(* ----------------------------------------------------------------------- *)
(* the text is a spelling of a free-of-charge keyword: it holds a keyword  *)
(* and names no amount                                                     *)
IsFreeSpelling ==
  /\ PriceIsFree
  /\ \A i \in 1..Len(p_text.v) : p_text.v[i] \notin Digits

(* C27: "12,50 zl/" parses to 12.50; a text that is not a number is mapped *)
(* to 0.0 exactly when it is a spelling of a free-of-charge keyword; the   *)
(* empty string and a missing value give null, not 0.                      *)
C27_PriceParsing ==
  \A r \in DOMAIN p_out \cap {"AlertsManager", "DealFilter"} :
    /\ p_text = Some(<<"1", "2", ",", "5", "0", " ", "z", "l/">>) => p_out[r] = Some(<<1250, 2>>)
    /\ IsFreeSpelling => IsZero(p_out[r])
    /\ (IsZero(p_out[r]) /\ ~PriceIsNumber) => IsFreeSpelling
    /\ PriceMissing => p_out[r] = None


(* ----------------------------------------------------------------------- *)
(* C28                                                                     *)
(* ----------------------------------------------------------------------- *)
(* the three gates enabled, at their defaults *)
AllGatesAtDefaults ==
  /\ filter_opts.check_freshness
  /\ filter_opts.check_temperature
  /\ filter_opts.check_price
  /\ ~filter_opts.min_temperature.some
  /\ ~filter_opts.max_price.some

(* C28: for the same deals and the same current time, the deals that       *)
(* check_alerts lets through to the matching of subscribers are the deals  *)
(* filter_deals returns with the three gates enabled at their defaults, in *)
(* the same order; the one fails exactly when the other does.              *)
C28_MatcherAppliesTheFilter ==
  (filter_out # <<>> /\ matcher_out # <<>> /\ AllGatesAtDefaults) =>
    /\ matcher_out[1].raised = filter_out[1].raised
    /\ matcher_out[1].deals = filter_out[1].deals

(* both ran on a batch of which one deal passed the gates and one did not *)
C28_Witness ==
  /\ filter_out # <<>>
  /\ matcher_out # <<>>
  /\ AllGatesAtDefaults
  /\ Len(filter_in) = 2
  /\ ~matcher_out[1].raised
  /\ Len(matcher_out[1].deals) = 1
  /\ matcher_out[1] = filter_out[1]


(* ----------------------------------------------------------------------- *)
(* C29                                                                     *)
(* ----------------------------------------------------------------------- *)
(* the positions of the returned deals that Strategy B produced *)
FromStrategyB == {n \in 1..Len(extracted) : html[x_src[n]].tag = "article"}

(* C29: every deal Strategy B produces has a null posted_timestamp and a   *)
(* null voucher_code, and so passes the freshness gate of the filter.      *)
C29_FallbackDealsAlwaysFresh ==
  \A n \in FromStrategyB :
    /\ extracted[n].posted_timestamp = None
    /\ extracted[n].voucher_code = PyNone
    /\ FilterFreshness(extracted[n]) = PASS

(* the fallback returned the card of a listing *)
C29_Witness ==
  /\ x_pc \in {"returned", "done"}
  /\ x_ran = <<"A", "B">>
  /\ FromStrategyB # {}


(* ----------------------------------------------------------------------- *)
(* C30                                                                     *)
(* ----------------------------------------------------------------------- *)
(* the queries before the one the loop is at *)
QueriesBefore == {unique_queries[n] : n \in 1..(qi - 1)}

C31_CacheLivesOneSweep ==
  /\ [](seen_in_cycle \subseteq resolved)
  /\ [](pc = "idle" => seen_in_cycle = {} /\ batch_seen = <<>> /\ notifications = <<>>)
  /\ [][StartSweep => /\ seen_in_cycle' = {}
                      /\ batch_seen' = <<>>
                      /\ notifications' = <<>>
                      /\ origin' = <<>>]_vars

(* a second sweep is under way with keys in its cache, after a sweep that  *)
(* cached keys and wrote some of them to the ledger                        *)
C31_Witness ==
  /\ sweepNo = 2
  /\ pc # "idle"
  /\ seen_in_cycle # {}
  /\ ledger # {}

(* ----------------------------------------------------------------------- *)
(* C34: notifications and staged ledger keys correspond one to one.  While *)
(* a sweep runs the two lists have the same length and the i-th key is the *)
(* (alert, link) of the i-th notification, whose user and query are those  *)
(* of that alert; when the sweep returns, the batch it wrote has the       *)
(* length of the list it returned, entry for entry, and nothing was        *)
(* written when nothing is returned.                                       *)
(* ----------------------------------------------------------------------- *)
C34_StagedKeysMatchNotifications ==
  /\ Len(notifications) = Len(batch_seen)
  /\ Len(origin) = Len(batch_seen)
  /\ \A i \in 1..Len(notifications) :
       /\ batch_seen[i] = <<origin[i], notifications[i].deal.link>>
       /\ notifications[i].user_id = AlertRow(origin[i]).user_id
       /\ notifications[i].query = AlertRow(origin[i]).query
  /\ last = "returned" =>
       IF returned = <<>>
       THEN write_log = <<>>
       ELSE /\ Len(write_log) = 1
            /\ Len(write_log[1]) = Len(returned)
            /\ \A i \in 1..Len(returned) :
                 /\ write_log[1][i][2] = returned[i].deal.link
                 /\ AlertRow(write_log[1][i][1]).user_id = returned[i].user_id
                 /\ AlertRow(write_log[1][i][1]).query = returned[i].query

(* a sweep returned three notifications, for both users, and wrote their   *)
(* three keys in one batch                                                 *)
C34_Witness ==
  /\ last = "returned"
  /\ Len(returned) = 3
  /\ Len(write_log) = 1
  /\ {returned[i].user_id : i \in 1..Len(returned)} = Users

(* ----------------------------------------------------------------------- *)
(* C33: every deal either strategy yields has an integer temperature of    *)
(* at least 0, whatever the source held.                                   *)
(* ----------------------------------------------------------------------- *)
C33_TemperatureNeverNegative ==
  /\ \A i \in 1..Len(x_deals) : x_deals[i].temperature \in Nat
  /\ \A i \in 1..Len(extracted) : extracted[i].temperature \in Nat

(* ----------------------------------------------------------------------- *)
(* The subscriber loop of check_alerts (lines 83-106) on its own: a deal   *)
(* that passed the gates meets the subscribers of its query, whose caps    *)
(* are absent, 0 or 100, with any part of their keys in the ledger.        *)
(* ----------------------------------------------------------------------- *)
MaxSubscribers == 2

T0 == Some(<<"0", ",", "0", "0", " ", "z", "l/">>)

CapDeals ==
  {Deal("l1", TFree, 60, None), Deal("l1", T0, 60, None), Deal("l1", T80, 60, None),
   Deal("l1", T150, 60, None), Deal("l2", T150, 60, None)}

CapValues == {None, Some(0), Some(100)}

(* the row of an alert on query "a" with the cap given *)
CapRow(id, cap) == [id |-> id, user_id |-> id, query |-> "a", max_price |-> cap]

(* the rows a query can have: ids 1, 2, ... in order, each with its cap *)
CapSubscribers ==
  UNION {{[i \in 1..n |-> CapRow(i, caps[i])] : caps \in [1..n -> CapValues]} :
           n \in 1..MaxSubscribers}

InitPairs ==
  /\ InitCog
  /\ InitFetch
  /\ InitExtract
  /\ InitThread
  /\ InitPrice
  /\ InitFilter
  /\ limit = SEARCH_LIMIT
  /\ extracted = <<>>
  /\ alerts = AlertIds
  /\ ledger \in SUBSET ((1..MaxSubscribers) \X {"l1"})
  /\ pc = "pair"
  /\ sweepNo = 1
  /\ unique_queries = <<"a">>
  /\ qi = 1
  /\ result = SUCCESS
  /\ di = 1
  /\ deal \in CapDeals
  /\ subscribers \in CapSubscribers
  /\ si = 1
  /\ notifications = <<>>
  /\ batch_seen = <<>>
  /\ seen_in_cycle \in {{}, ledger}
  /\ origin = <<>>
  /\ looked = seen_in_cycle
  /\ resolved = seen_in_cycle
  /\ requeried = {}
  /\ write_log = <<>>
  /\ fetched = {"a"}
  /\ ledger0 = ledger
  /\ last = "running"
  /\ cause = "none"
  /\ returned = <<>>
  /\ emitted = [k \in EmitKeys |-> 0]
  /\ rejected = {}

NextPair == ProcessPair /\ UNCHANGED <<fetch_vars, pure_vars>>

SpecCap == InitPairs /\ [][NextPair]_vars

(* the parsed price of the deal at hand is 0 *)
DealIsFree ==
  LET price == parse_price(deal.price).v
  IN  ~IsSpecial(price) /\ price[1] = 0

(* C32: the subscriber's price check lets through every deal whose parsed  *)
(* price is 0, whatever the cap (0 included), and every deal when the      *)
(* subscriber has no cap: such a pair, unless its key is in the cache or   *)
(* in the ledger, gets its notification and its key is staged.             *)
C32_FreeOrUncappedAlwaysPasses ==
  [][ProcessPair =>
       LET sub == subscribers[si]
           cache_key == <<sub.id, deal.link>>
       IN  (/\ cache_key \notin seen_in_cycle
            /\ cache_key \notin ledger
            /\ last' # "raised"
            /\ (DealIsFree \/ ~sub.max_price.some))
           => /\ notifications' =
                   Append(notifications,
                          [user_id |-> sub.user_id, deal |-> deal,
                           query |-> unique_queries[qi]])
              /\ batch_seen' = Append(batch_seen, cache_key)]_vars

(* a free deal was notified to a subscriber whose cap is 0, and to one     *)
(* without a cap                                                           *)
C32_Witness ==
  /\ Len(notifications) = 2
  /\ notifications[1].deal.price = TFree
  /\ \E i, j \in 1..Len(subscribers) :
       /\ subscribers[i].max_price = Some(0)
       /\ subscribers[j].max_price = None
       /\ {origin[1], origin[2]} = {subscribers[i].id, subscribers[j].id}

(* ----------------------------------------------------------------------- *)
(* PepperCommands.process_alerts (cogs/pepper.py lines 776-831): what it   *)
(* does with the list check_alerts returned                                *)
(* ----------------------------------------------------------------------- *)
ALERT_TOP_DEALS == 5

(* the values of s, each once, in the order of their first occurrence: the *)
(* key order of a dict filled in that order                                *)
RECURSIVE Firsts(_, _)
Firsts(s, acc) ==
  IF s = <<>> THEN acc
  ELSE Firsts(Tail(s), IF Head(s) \in Range(acc) THEN acc ELSE Append(acc, Head(s)))

(* lines 780-782: grouped[user_id][query] is the list of the deals *)
grouped(list) ==
  LET users == Firsts([i \in 1..Len(list) |-> list[i].user_id], <<>>)
  IN  [u \in 1..Len(users) |->
         LET mine == SelectSeq(list, LAMBDA n : n.user_id = users[u])
             qs == Firsts([i \in 1..Len(mine) |-> mine[i].query], <<>>)
         IN  [user_id |-> users[u],
              queries |-> [q \in 1..Len(qs) |->
                             LET hits == SelectSeq(mine, LAMBDA n : n.query = qs[q])
                             IN  [query |-> qs[q],
                                  deals |-> [i \in 1..Len(hits) |-> hits[i].deal]]]]]

(* sorted(..., key=temperature, reverse=True): stable, hottest first *)
RECURSIVE InsertHot(_, _)
InsertHot(s, d) ==
  IF s = <<>> THEN <<d>>
  ELSE IF Head(s).temperature >= d.temperature THEN <<Head(s)>> \o InsertHot(Tail(s), d)
  ELSE <<d>> \o s

RECURSIVE SortedHot(_)
SortedHot(s) ==
  IF s = <<>> THEN <<>> ELSE InsertHot(SortedHot(SubSeq(s, 1, Len(s) - 1)), s[Len(s)])

(* lines 795-796 *)
AlertTopDeals(deals) == Take(SortedHot(deals), ALERT_TOP_DEALS)

(* one pass of the inner loop, as the history keeps it *)
Attempt(user_id, group, outcome) ==
  [user_id |-> user_id, query |-> group.query,
   links |-> [i \in 1..Len(AlertTopDeals(group.deals)) |-> AlertTopDeals(group.deals)[i].link],
   all |-> {group.deals[i].link : i \in 1..Len(group.deals)},
   outcome |-> outcome]

(* lines 778-782: check_alerts returned; the list is grouped *)
GroupReturned ==
  /\ pc = "idle"
  /\ last = "returned"
  /\ d_pc = "idle"
  /\ d_pc' = "user"
  /\ d_ui' = 1
  /\ d_qi' = 1
  /\ UNCHANGED outbox

(* lines 830-831: check_alerts raised; the error is logged *)
LogSweepError ==
  /\ pc = "idle"
  /\ last = "raised"
  /\ d_pc = "idle"
  /\ d_pc' = "done"
  /\ UNCHANGED <<d_ui, d_qi, outbox>>

(* lines 784-791: the next user of grouped; a user that cannot be fetched  *)
(* is skipped with all its queries (continue)                              *)
ResolveUser ==
  /\ d_pc = "user"
  /\ IF d_ui > Len(grouped(returned))
     THEN /\ d_pc' = "done"
          /\ UNCHANGED <<d_ui, d_qi, outbox>>
     ELSE \E found \in BOOLEAN :
            IF found
            THEN /\ d_pc' = "send"
                 /\ d_qi' = 1
                 /\ UNCHANGED <<d_ui, outbox>>
            ELSE LET g == grouped(returned)[d_ui]
                 IN  /\ outbox' = outbox \o [q \in 1..Len(g.queries) |->
                                               Attempt(g.user_id, g.queries[q], "no user")]
                     /\ d_ui' = d_ui + 1
                     /\ UNCHANGED <<d_pc, d_qi>>

(* a failed send leaves the loops *)
AfterAttemptFailureEnds(outcome) ==
  IF outcome # "sent"
  THEN d_pc' = "done" /\ UNCHANGED <<d_ui, d_qi>>
  ELSE IF d_qi < Len(grouped(returned)[d_ui].queries)
  THEN d_qi' = d_qi + 1 /\ UNCHANGED <<d_pc, d_ui>>
  ELSE d_pc' = "user" /\ d_ui' = d_ui + 1 /\ d_qi' = 1

(* lines 793 and 825-828: sent or caught, the inner loop goes on; at its   *)
(* end the outer loop takes the next user                                  *)
AfterAttempt(outcome) ==
  IF d_qi < Len(grouped(returned)[d_ui].queries)
  THEN d_qi' = d_qi + 1 /\ UNCHANGED <<d_pc, d_ui>>
  ELSE d_pc' = "user" /\ d_ui' = d_ui + 1 /\ d_qi' = 1

(* lines 793-828: one (user, query) message: sent, refused                 *)
(* (discord.Forbidden) or failed with any other exception                  *)
SendQuery ==
  /\ d_pc = "send"
  /\ LET g == grouped(returned)[d_ui]
     IN  \E outcome \in {"sent", "forbidden", "error"} :
           /\ outbox' = Append(outbox, Attempt(g.user_id, g.queries[d_qi], outcome))
           /\ AfterAttempt(outcome)

(* ----------------------------------------------------------------------- *)
(* process_alerts from the end of the query loop of check_alerts on: the   *)
(* sweep staged the notifications of a set of (alert, link) pairs, page by *)
(* page in the order of its queries, and found every other pair in the     *)
(* ledger; or the sweep raised on its way.                                 *)
(* ----------------------------------------------------------------------- *)
RECURSIVE Flatten(_)
Flatten(ss) == IF ss = <<>> THEN <<>> ELSE Head(ss) \o Flatten(Tail(ss))

PageLinks == <<"l1", "l2">>

HotDeal(link) == Deal(link, T80, IF link = "l1" THEN 60 ELSE 70, None)

(* the pairs of E in the order the loops of lines 42, 53 and 83 meet them *)
StagedKeys(E, qs) ==
  Flatten([q \in 1..Len(qs) |->
             Flatten([l \in 1..Len(PageLinks) |->
                        LET rows == SortedRows({a \in AlertIds : /\ AlertRow(a).query = qs[q]
                                                                  /\ <<a, PageLinks[l]>> \in E})
                        IN  [i \in 1..Len(rows) |-> <<rows[i].id, PageLinks[l]>>]])])

SweepCauses == {"get_all_unique_queries", "get_alerts_by_query", "gates", "is_deal_seen_by_alert"}

InitDelivery ==
  /\ InitCog
  /\ InitFetch
  /\ InitExtract
  /\ InitThread
  /\ InitPrice
  /\ InitFilter
  /\ limit = SEARCH_LIMIT
  /\ extracted = <<>>
  /\ alerts = AlertIds
  /\ sweepNo = 1
  /\ di = 0
  /\ deal = NoDeal
  /\ subscribers = <<>>
  /\ si = 1
  /\ requeried = {}
  /\ write_log = <<>>
  /\ returned = <<>>
  /\ emitted = [k \in EmitKeys |-> 0]
  /\ rejected = {}
  /\ \/ /\ pc = "query"
        /\ last = "running"
        /\ cause = "none"
        /\ unique_queries \in get_all_unique_queries
        /\ qi = Len(unique_queries) + 1
        /\ result = SUCCESS
        /\ \E E \in SUBSET AllKeys :
             /\ batch_seen = StagedKeys(E, unique_queries)
             /\ ledger = AllKeys \ E
        /\ origin = [i \in 1..Len(batch_seen) |-> batch_seen[i][1]]
        /\ notifications = [i \in 1..Len(batch_seen) |->
                              Notification(AlertRow(batch_seen[i][1]), HotDeal(batch_seen[i][2]),
                                           AlertRow(batch_seen[i][1]).query)]
        /\ seen_in_cycle = AllKeys
        /\ looked = AllKeys
        /\ resolved = AllKeys
        /\ fetched = Range(unique_queries)
     \/ /\ pc = "idle"
        /\ last = "raised"
        /\ cause \in SweepCauses
        /\ unique_queries \in get_all_unique_queries \cup {<<>>}
        /\ cause = "get_all_unique_queries" <=> unique_queries = <<>>
        /\ qi = 1
        /\ result = FAILURE
        /\ ledger \in {{}, AllKeys}
        /\ batch_seen = <<>>
        /\ origin = <<>>
        /\ notifications = <<>>
        /\ seen_in_cycle = {}
        /\ looked = {}
        /\ resolved = {}
        /\ fetched = Range(unique_queries)
  /\ ledger0 = ledger

NextDelivery ==
  \/ FinishSweep /\ UNCHANGED <<fetch_vars, extract_vars, thread_vars, price_vars, filter_vars,
                                deliver_vars, channel_vars, add_vars>>
  \/ GroupReturned /\ UNCHANGED <<sweep_vars, fetch_vars, extract_vars, thread_vars, price_vars,
                                  filter_vars, channel_vars, add_vars>>
  \/ LogSweepError /\ UNCHANGED <<sweep_vars, fetch_vars, extract_vars, thread_vars, price_vars,
                                  filter_vars, channel_vars, add_vars>>
  \/ ResolveUser /\ UNCHANGED <<sweep_vars, fetch_vars, extract_vars, thread_vars, price_vars,
                                filter_vars, channel_vars, add_vars>>
  \/ SendQuery /\ UNCHANGED <<sweep_vars, fetch_vars, extract_vars, thread_vars, price_vars,
                              filter_vars, channel_vars, add_vars>>

SpecDeliver == InitDelivery /\ [][NextDelivery]_vars

(* the alert a notification came from: a user has one row per query *)
AlertOf(user_id, query) ==
  CHOOSE a \in AlertIds : AlertRow(a).user_id = user_id /\ AlertRow(a).query = query

(* the key of every notification check_alerts returned is in the ledger *)
ReturnedKeysPersisted ==
  \A i \in 1..Len(returned) :
    <<AlertOf(returned[i].user_id, returned[i].query), returned[i].deal.link>> \in ledger

(* C35: the notifications of a sweep reach delivery only after the batched *)
(* ledger write of that sweep has returned.  While check_alerts runs       *)
(* nothing is delivered; once delivery is under way every key of the       *)
(* returned list is in the ledger and the one batch written has the length *)
(* of the list; a sweep that raised, in mark_deals_seen_batch or earlier,  *)
(* returns nothing and process_alerts makes no delivery attempt.           *)
C35_DeliveryOnlyAfterTheWrite ==
  /\ pc # "idle" => d_pc = "idle" /\ outbox = <<>>
  /\ d_pc # "idle" /\ last = "returned" =>
       /\ ReturnedKeysPersisted
       /\ returned # <<>> => Len(write_log) = 1 /\ Len(write_log[1]) = Len(returned)
  /\ last = "raised" => returned = <<>> /\ outbox = <<>> /\ d_pc \in {"idle", "done"}
  /\ outbox # <<>> => last = "returned"

(* the write of a batch of two keys or more raised, and process_alerts     *)
(* ended the run without an attempt                                        *)
C35_Witness ==
  /\ last = "raised"
  /\ cause = "mark_deals_seen_batch"
  /\ Len(write_log) = 1
  /\ Len(write_log[1]) >= 2
  /\ d_pc = "done"
  /\ outbox = <<>>

(* the (user, query) groups of the returned list, in the order of grouped *)
GroupsOf(list) ==
  Flatten([u \in 1..Len(grouped(list)) |->
             [q \in 1..Len(grouped(list)[u].queries) |->
                <<grouped(list)[u].user_id, grouped(list)[u].queries[q].query>>]])

(* C36: delivery is at most once.  At every delivery attempt, failed or    *)
(* not, the keys of the group's deals are in the ledger already, and no    *)
(* step of the delivery touches the ledger or the alert rows, so no later  *)
(* sweep emits them again; a failure (user not fetched, message refused,   *)
(* any send error) does not stop the run: when it ends, every (user,       *)
(* query) group of the returned list has had its pass, in order.           *)
C36_AtMostOnceAndFailuresIsolated ==
  /\ [](\A i \in 1..Len(outbox) :
          \A l \in outbox[i].all :
            <<AlertOf(outbox[i].user_id, outbox[i].query), l>> \in ledger)
  /\ [](d_pc = "done" /\ last = "returned" =>
          [i \in 1..Len(outbox) |-> <<outbox[i].user_id, outbox[i].query>>]
            = GroupsOf(returned))
  /\ [](\A i \in 1..Len(outbox) :
          outbox[i].outcome = "no user" =>
            \A j \in 1..Len(outbox) :
              outbox[j].user_id = outbox[i].user_id => outbox[j].outcome = "no user")
  /\ [][ResolveUser \/ SendQuery => UNCHANGED <<ledger, alerts>>]_vars

(* three groups: the first user was refused its first message and got the  *)
(* second, the second user could not be fetched                            *)
C36_Witness ==
  /\ d_pc = "done"
  /\ Len(outbox) = 3
  /\ outbox[1].outcome = "forbidden"
  /\ outbox[2].outcome = "sent"
  /\ outbox[2].user_id = outbox[1].user_id
  /\ outbox[3].outcome = "no user"
  /\ Len(outbox[1].links) = 2

(* ----------------------------------------------------------------------- *)
(* The channel jobs of cogs/pepper.py: process_category_notification       *)
(* (lines 642-763) and process_flight_deals (lines 833-922), run by the    *)
(* scheduler or by a manual trigger                                        *)
(* ----------------------------------------------------------------------- *)
MAX_DEALS_PER_NOTIFICATION == 10
LISTING_LIMIT == 20

MaxListing == 11

(* the n-th deal of a listing page: hotter down the page, the third dearer *)
ListedOffer(n) == Deal(n, IF n = 3 THEN T150 ELSE T80, 50 + n, None)

ListingPage(n) == [i \in 1..n |-> ListedOffer(i)]

(* the store a job reads and writes *)
SentLedger(kind) == IF kind = "category" THEN "category_sent_deals" ELSE "sent_deals"

(* is_category_deal_sent / is_deal_sent *)
is_sent(kind, link) == <<SentLedger(kind), link>> \in sent

(* mark_category_deals_sent_batch / add_sent_deal *)
mark_sent(kind, links) == sent \cup {<<SentLedger(kind), l>> : l \in links}

SentBefore ==
  {{}, {"category_sent_deals", "sent_deals"} \X {1, 2},
   {"category_sent_deals", "sent_deals"} \X (1..MaxListing)}

(* lines 686-693: the gates of the category; the digest has none *)
CategoryGateSkips(job, d) ==
  /\ job.kind = "category"
  /\ \/ job.min_temperature > 0 /\ d.temperature < job.min_temperature
     \/ /\ job.max_price.some
        /\ job.max_price.v # 0
        /\ FloatGT(PepperCommands_parse_price(d.price).v, 0)
        /\ FloatGT(PepperCommands_parse_price(d.price).v, job.max_price.v)

(* a manual trigger selects like a scheduled run *)
SelectedUnsentOnly(manual_trigger, seen_before) == ~seen_before

(* lines 697 and 874: if manual_trigger or not is_sent *)
Selected(manual_trigger, seen_before) == manual_trigger \/ ~seen_before

(* a manual trigger marks like a scheduled run *)
MarksAlways(manual_trigger) == TRUE

(* lines 699 and 876: if not manual_trigger *)
Marks(manual_trigger) == ~manual_trigger

(* the job is over: its locals are dead *)
JobDone ==
  /\ c_pc' = "done"
  /\ c_i' = 1
  /\ new_deals' = <<>>
  /\ batch_to_mark' = <<>>

(* lines 649-679 and 836-867: the call, up to the loop over the deals *)
CallJob ==
  /\ c_pc = "idle"
  /\ \E kind \in {"category", "flight"}, manual_trigger \in BOOLEAN, channel \in BOOLEAN,
        success \in BOOLEAN, n \in 0..MaxListing, min_temperature \in {0, 53},
        max_price \in {None, Some(100)} :
       /\ n <= LISTING_LIMIT
       /\ kind = "flight" => min_temperature = 0 /\ max_price = None
       /\ ~channel \/ ~success => n = 0
       /\ c_job' = [kind |-> kind, manual_trigger |-> manual_trigger, channel |-> channel,
                    deals |-> ListingPage(n), min_temperature |-> min_temperature,
                    max_price |-> max_price, sent_before |-> sent,
                    status_before |-> category_status]
       /\ IF ~channel
          THEN /\ \E ok \in BOOLEAN :
                    category_status' = IF kind = "category" /\ ~manual_trigger /\ ok
                                       THEN "disabled" ELSE category_status
               /\ JobDone
          ELSE IF ~success \/ n = 0
          THEN /\ JobDone
               /\ UNCHANGED category_status
          ELSE /\ c_pc' = "loop"
               /\ c_i' = 1
               /\ new_deals' = <<>>
               /\ batch_to_mark' = <<>>
               /\ UNCHANGED category_status
  /\ UNCHANGED <<sent, shown>>

(* lines 683-700 and 869-877: one deal of the page *)
LoopStep ==
  /\ c_pc = "loop"
  /\ c_i <= Len(c_job.deals)
  /\ LET d == c_job.deals[c_i]
     IN  IF CategoryGateSkips(c_job, d)
         THEN /\ c_i' = c_i + 1
              /\ UNCHANGED <<c_pc, new_deals, batch_to_mark, sent>>
         ELSE \E looked_up \in BOOLEAN :
                IF ~looked_up
                THEN JobDone /\ UNCHANGED sent
                ELSE IF ~Selected(c_job.manual_trigger, is_sent(c_job.kind, d.link))
                THEN /\ c_i' = c_i + 1
                     /\ UNCHANGED <<c_pc, new_deals, batch_to_mark, sent>>
                ELSE IF ~Marks(c_job.manual_trigger)
                THEN /\ c_i' = c_i + 1
                     /\ new_deals' = Append(new_deals, d)
                     /\ UNCHANGED <<c_pc, batch_to_mark, sent>>
                ELSE IF c_job.kind = "category"
                THEN /\ c_i' = c_i + 1
                     /\ new_deals' = Append(new_deals, d)
                     /\ batch_to_mark' = Append(batch_to_mark, d.link)
                     /\ UNCHANGED <<c_pc, sent>>
                ELSE \E added \in BOOLEAN :
                       IF added
                       THEN /\ c_i' = c_i + 1
                            /\ new_deals' = Append(new_deals, d)
                            /\ sent' = mark_sent("flight", {d.link})
                            /\ UNCHANGED <<c_pc, batch_to_mark>>
                       ELSE JobDone /\ UNCHANGED sent
  /\ UNCHANGED <<c_job, category_status, shown>>

(* lines 714-715 and 887-888 *)
TopDeals(list) == Take(SortedHot(list), MAX_DEALS_PER_NOTIFICATION)

(* lines 702-749 and 879-912: the batch of marks, then the message; the    *)
(* write or the send can raise into the except of lines 758 and 917        *)
AfterLoop ==
  /\ c_pc = "loop"
  /\ c_i > Len(c_job.deals)
  /\ \E marked \in BOOLEAN, delivered \in BOOLEAN :
       /\ batch_to_mark = <<>> => marked
       /\ new_deals = <<>> \/ ~marked => delivered
       /\ sent' = IF batch_to_mark # <<>> /\ marked
                  THEN mark_sent(c_job.kind, Range(batch_to_mark)) ELSE sent
       /\ shown' = IF marked /\ new_deals # <<>> /\ delivered
                   THEN Some([i \in 1..Len(TopDeals(new_deals)) |-> TopDeals(new_deals)[i].link])
                   ELSE shown
  /\ JobDone
  /\ UNCHANGED <<c_job, category_status>>

InitChannel ==
  /\ InitSweep
  /\ InitFetch
  /\ InitExtract
  /\ InitThread
  /\ InitPrice
  /\ InitFilter
  /\ limit = SEARCH_LIMIT
  /\ extracted = <<>>
  /\ d_pc = "idle"
  /\ d_ui = 1
  /\ d_qi = 1
  /\ outbox = <<>>
  /\ c_pc = "idle"
  /\ c_job = NoJob
  /\ c_i = 1
  /\ new_deals = <<>>
  /\ batch_to_mark = <<>>
  /\ sent \in SentBefore
  /\ category_status = "active"
  /\ shown = None
  /\ owned = {}
  /\ handlers = <<>>

NextChannel ==
  \/ CallJob /\ UNCHANGED <<sweep_vars, fetch_vars, extract_vars, thread_vars, price_vars,
                            filter_vars, deliver_vars, add_vars>>
  \/ LoopStep /\ UNCHANGED <<sweep_vars, fetch_vars, extract_vars, thread_vars, price_vars,
                             filter_vars, deliver_vars, add_vars>>
  \/ AfterLoop /\ UNCHANGED <<sweep_vars, fetch_vars, extract_vars, thread_vars, price_vars,
                              filter_vars, deliver_vars, add_vars>>

SpecChannel == InitChannel /\ [][NextChannel]_vars

(* the links this run marked as sent *)
MarkedInRun == {k[2] : k \in sent \ c_job.sent_before}

(* ----------------------------------------------------------------------- *)
(* C37: in a scheduled category sweep or flight digest, every deal the run *)
(* marked as sent is in the message the run sent to the channel.           *)
(* ----------------------------------------------------------------------- *)
C37_MarkedDealsWereDisplayed ==
  c_pc = "done" /\ ~c_job.manual_trigger =>
    \A l \in MarkedInRun : shown.some /\ l \in Range(shown.v)

(* the deals of the page that pass the gates of the category, page order *)
Gated == SelectSeq(c_job.deals, LAMBDA d : ~CategoryGateSkips(c_job, d))

(* C38: a manual trigger of a category notification or of the flight       *)
(* digest leaves the sent-deal stores as they were and selects without     *)
(* them: the message it sends shows the hottest of all the deals that pass *)
(* the category's gates, marked as sent or not; it leaves the category's   *)
(* status alone, and a status of disabled comes only from a scheduled      *)
(* category run that found no channel.                                     *)
C38_ManualTriggerLeavesLedgersAlone ==
  /\ c_job.manual_trigger =>
       /\ sent = c_job.sent_before
       /\ category_status = c_job.status_before
       /\ batch_to_mark = <<>>
       /\ shown.some => shown.v = [i \in 1..Len(TopDeals(Gated)) |-> TopDeals(Gated)[i].link]
  /\ category_status = "disabled" =>
       c_job.kind = "category" /\ ~c_job.manual_trigger /\ ~c_job.channel

(* a manual trigger sent a message of deals that were all marked as sent   *)
(* before, and the stores are as they were                                 *)
C38_Witness ==
  /\ c_pc = "done"
  /\ c_job.manual_trigger
  /\ shown.some
  /\ Len(shown.v) >= 2
  /\ \A i \in 1..Len(shown.v) : <<SentLedger(c_job.kind), shown.v[i]>> \in sent
  /\ sent = c_job.sent_before

(* ----------------------------------------------------------------------- *)
(* PepperCommands._add_alert_shared (cogs/pepper.py lines 206-220), run by *)
(* the text command and by the slash command.  Every command is a task of  *)
(* its own on the event loop; a handler is suspended at each of its two    *)
(* awaits (get_alerts, add_alert) and the others run meanwhile.            *)
(* ----------------------------------------------------------------------- *)
MAX_ALERTS == 10

MaxHandlers == 2

(* the queries the commands under way ask for: none is watched yet *)
NewQueries == (MAX_ALERTS + 1)..(MAX_ALERTS + MaxHandlers)

(* Database.get_user_alerts: the rows of the user *)
get_alerts == owned

(* Database.add_alert: the row is inserted (true) or the store refuses it  *)
(* (false); the store knows no cap                                         *)
add_alert(query, inserted) == IF inserted THEN owned \cup {query} ELSE owned

(* lines 207-209: the rows are read, the cap is tested on what was read *)
ReadAlerts(h) ==
  /\ handlers[h].pc = "start"
  /\ LET current == get_alerts
     IN  handlers' = [handlers EXCEPT ![h].current = Cardinality(current),
                                      ![h].pc = IF Cardinality(current) >= MAX_ALERTS
                                                THEN "refused" ELSE "checked"]
  /\ UNCHANGED owned

(* lines 211-220: the insert, after the suspension that followed the read *)
InsertAlert(h) ==
  /\ handlers[h].pc = "checked"
  /\ \E inserted \in BOOLEAN :
       /\ owned' = add_alert(handlers[h].query, inserted)
       /\ handlers' = [handlers EXCEPT ![h].pc = IF inserted THEN "added" ELSE "failed"]

InitAdd ==
  /\ InitSweep
  /\ InitFetch
  /\ InitExtract
  /\ InitThread
  /\ InitPrice
  /\ InitFilter
  /\ limit = SEARCH_LIMIT
  /\ extracted = <<>>
  /\ d_pc = "idle"
  /\ d_ui = 1
  /\ d_qi = 1
  /\ outbox = <<>>
  /\ c_pc = "idle"
  /\ c_job = NoJob
  /\ c_i = 1
  /\ new_deals = <<>>
  /\ batch_to_mark = <<>>
  /\ sent = {}
  /\ category_status = "active"
  /\ shown = None
  /\ owned \in {1..n : n \in 0..MAX_ALERTS}
  /\ handlers \in [1..MaxHandlers ->
                     {[pc |-> "start", query |-> q, current |-> 0] : q \in NewQueries}]

NextAdd ==
  \/ \E h \in 1..MaxHandlers :
       ReadAlerts(h) /\ UNCHANGED <<sweep_vars, fetch_vars, extract_vars, thread_vars,
                                    price_vars, filter_vars, deliver_vars, channel_vars>>
  \/ \E h \in 1..MaxHandlers :
       InsertAlert(h) /\ UNCHANGED <<sweep_vars, fetch_vars, extract_vars, thread_vars,
                                     price_vars, filter_vars, deliver_vars, channel_vars>>

SpecAdd == InitAdd /\ [][NextAdd]_vars

(* ----------------------------------------------------------------------- *)
(* C39: the per-user cap holds under concurrency: whatever the             *)
(* interleaving of the add-alert handlers of one user, the user owns at    *)
(* most 10 alerts.                                                         *)
(* ----------------------------------------------------------------------- *)
C39_CapHoldsUnderConcurrency == Cardinality(owned) <= MAX_ALERTS
====
